---- MODULE Spec2Model ----
(***************************************************************************)
(* Feed ranking and personalization engine of infinite-social-feed:        *)
(*   - the per-user tag preference profile (User.likedTags, addLikedTag),  *)
(*   - the diversity rerankers (RankingService.applyDiversity and          *)
(*     PersonalizationService.applyContentDiversity),                      *)
(*   - the like path and the personalized feed with its cache.             *)
(*                                                                         *)
(* Tags are modelled as naturals.  A tag t in 1..UpperOffset is a          *)
(* lower-case spelling; t + UpperOffset is the same word spelled with      *)
(* upper-case letters, so that String.toLowerCase is a real conversion.    *)
(* Probabilities and Math.random() draws are in hundredths (0..100).       *)
(***************************************************************************)
EXTENDS Integers, Sequences, FiniteSets, TLC

VARIABLES
    \* ---- tag preference profile (User.likedTags of the one modelled user)
    likedTags,      \* stored array of [tag, count, lastLikedAt]
    clock,          \* logical time, the value of `new Date()`
    callHist,       \* history: <<[tag, weightAfter]>> one per completed addLikedTag
    lastEvicted,    \* history: entries dropped by the truncation of the latest call
    \* ---- diversity reranker
    dvAlgo,         \* "none" | "applyDiversity" | "applyContentDiversity"
    dvPosts,        \* the input list (post ids)
    dvFactor,       \* diversityFactor / diversityLevel, in hundredths
    diversified,    \* the output under construction
    remaining,      \* posts not placed yet
    dvPc,           \* "idle" | "loop" | "done"
    dvResult,       \* the returned list once dvPc = "done"
    \* ---- stores other than the profile
    docVersion,     \* __v of the stored user document
    likesCount,     \* Post.likesCount, per post
    likeRec,        \* the user's Like record per post: "none" | "active" | "inactive"
    cache,          \* cache contents: key -> <<value>>, or NoEntry
    cacheExpiry,    \* per key, the time its entry expires, or NoExpiry
    \* ---- updateUserPreferencesOnLike activations (one per slot)
    lpc,            \* "idle" | "findPost" | "findUser" | "addTags" | "invalidate"
    lpost,          \* the liked post
    ldoc,           \* likedTags of the loaded user document
    lver,           \* __v of the loaded user document
    ltags,          \* tags of the post still to be added
    \* ---- getPersonalizedFeed activation (one request at a time)
    fpc,            \* "idle" | "prefsCache" | "prefsLoad" | "query" | "respond"
    freq,           \* req.query of the request being handled
    fprefs,         \* userPreferredTags
    fposts,         \* posts returned by getPersonalizedPosts
    fdraws,         \* history: Math.random() outcomes used by applyDiversity
    lastResponse,   \* body of the latest feed response, or NoResponse
    lastMeta,       \* history about the latest response: updatesDone, time
                    \*   and clears when the served page was written and when
                    \*   it was served, the Math.random() outcomes behind it,
                    \*   and whether serving it replaced a cache entry
    feedMeta,       \* history about each feed cache entry: updatesDone, time
                    \*   and clears when it was written and the Math.random()
                    \*   outcomes behind it
    feeds,          \* number of feed requests accepted
    \* ---- environment of the feed path
    fault,          \* the dependency failing now: "none" | "cacheDown" |
                    \*   "cacheError" | "posts" | "likes" | "users" | "likeLog"
    tnow,           \* wall-clock time in seconds
    clears,         \* number of clearFeedCache requests answered
    \* ---- history
    toggles,        \* number of toggleLike requests handled
    tagLikes,       \* per tag, the number of like events on posts carrying it
    updatesDone,    \* number of preference updates that ran to completion
    \* ---- calculateBatchRankingScores activation
    scPc,           \* "idle" | "done"
    scPosts,        \* the posts handed to the call
    scPrefs,        \* userLikedTags handed to the call
    scOut,          \* the returned array once scPc = "done"
    \* ---- a client paging through the feed by cursor, cache bypassed
    pgPc,           \* "idle" | "walking" | "end"
    pgLimit,        \* the page size the client asks for
    pgPrefs,        \* userPreferredTags of the requesting user
    pgCursor,       \* lastPostId of the next request, NoPost on the first
    pgPages,        \* history: the post ids of each page received
    \* ---- getUserPreferredTags activation (one call at a time)
    gpc,            \* "idle" | "load" | "store"
    glimit,         \* options.limit of the call being handled
    gresult,        \* the local `result` between the reads and cacheService.set
    gread,          \* history: stored profile and likes the call read
    gcalls,         \* number of calls accepted
    greturn,        \* history: limit and value of the latest return, whether
                    \*   it came from the cache, whether the stores were then
                    \*   as when the entry was computed, and what an uncached
                    \*   computation would have returned at that moment
    gentry,         \* history: stored profile and likes the cached entry was computed from
    \* ---- toggleLike requests of several users on one post, step by step
    tpc,            \* per request slot: "idle" | "findActive" | "findInactive" |
                    \*   "saveLike" | "saveCount"
    tuser,          \* per slot, req.user
    tloaded,        \* per slot, likesCount of the post document the request loaded
    tbranch,        \* per slot: "none" | "unlike" | "reactivate" | "create"
    tlikes,         \* per user, the Like record for the post: "none" | "active" | "inactive"
    tcount,         \* the stored Post.likesCount
    treqs           \* number of toggleLike requests accepted

profVars == <<likedTags, clock, callHist, lastEvicted>>
divVars  == <<dvAlgo, dvPosts, dvFactor, diversified, remaining, dvPc, dvResult>>
likeVars == <<lpc, lpost, ldoc, lver, ltags>>
storeVars == <<docVersion, likesCount, likeRec, cache, cacheExpiry>>
envVars  == <<fault, tnow, clears>>
histVars == <<toggles, tagLikes, updatesDone>>
feedVars == <<fpc, freq, fprefs, fposts, fdraws, lastResponse, lastMeta, feedMeta, feeds>>
sysVars  == <<docVersion, likesCount, likeRec, cache, cacheExpiry,
              fault, tnow, clears,
              lpc, lpost, ldoc, lver, ltags, toggles, tagLikes, updatesDone,
              fpc, freq, fprefs, fposts, fdraws, lastResponse, lastMeta, feedMeta, feeds>>
scoreVars == <<scPc, scPosts, scPrefs, scOut>>
pageVars == <<pgPc, pgLimit, pgPrefs, pgCursor, pgPages>>
prefVars == <<gpc, glimit, gresult, gread, gcalls, greturn, gentry>>
tglVars  == <<tpc, tuser, tloaded, tbranch, tlikes, tcount, treqs>>
vars     == <<profVars, divVars, sysVars, scoreVars, pageVars, prefVars, tglVars>>

----------------------------------------------------------------------------
(* Bounds *)

MaxCalls == 4           \* addLikedTag calls per behaviour of SpecProfile
MaxPosts == 4           \* longest input list handed to a reranker
MaxToggles == 2         \* toggleLike requests per behaviour of Spec
MaxLikers == 2          \* preference updates that can be in flight at once
MaxFeeds == 2           \* feed requests per behaviour of Spec and SpecFeed
MaxTicks == 2           \* steps of the wall clock per behaviour of SpecFeed
MaxClears == 1          \* clearFeedCache requests per behaviour of SpecFeed
MaxBatch == 2           \* longest array handed to calculateBatchRankingScores
MaxSort == 3            \* longest array handed to sortByRanking in SpecSorting
MaxWalk == 5            \* pages a client requests in SpecPaging
MaxPrefCalls == 2       \* getUserPreferredTags calls per behaviour of SpecPrefs
MaxLikeReqs == 3        \* toggleLike requests per behaviour of SpecLikes
MaxInFlight == 2        \* toggleLike requests that can be in flight at once

(* Program constants *)

MaxLikedTags == 100     \* User.js: "Keep only top 100 tags"
UpperOffset == 10 * MaxLikedTags   \* encoding of upper-case spellings (see header)

----------------------------------------------------------------------------
(* Generic helpers *)

Range(s) == {s[i] : i \in 1..Len(s)}

Max(S) == CHOOSE x \in S : \A y \in S : y <= x

Min(S) == CHOOSE x \in S : \A y \in S : x <= y

\* Array.prototype.indexOf / find / findIndex: first matching index, 0 when absent
FirstIndex(s, P(_)) ==
    LET hits == {i \in 1..Len(s) : P(s[i])}
    IN IF hits = {} THEN 0 ELSE Min(hits)

\* Array.prototype.splice(i, 1)
RemoveAt(s, i) == SubSeq(s, 1, i-1) \o SubSeq(s, i+1, Len(s))

\* String.prototype.toLowerCase on the tag encoding
ToLowerCase(t) == IF t > UpperOffset THEN t - UpperOffset ELSE t

----------------------------------------------------------------------------
(* User.likedTags and addLikedTag                                          *)

\* mutant: the comparator reversed (a.count - b.count)
RECURSIVE SortByCountAsc(_)
SortByCountAsc(s) ==
    IF s = <<>> THEN <<>>
    ELSE LET m == Min({s[i].count : i \in 1..Len(s)})
         IN SelectSeq(s, LAMBDA e : e.count = m)
              \o SortByCountAsc(SelectSeq(s, LAMBDA e : e.count # m))

\* likedTags.sort((a, b) => b.count - a.count): descending by count; the
\* engine's sort is stable, so equal counts keep their array order.
RECURSIVE SortByCountDesc(_)
SortByCountDesc(s) ==
    IF s = <<>> THEN <<>>
    ELSE LET m == Max({s[i].count : i \in 1..Len(s)})
         IN SelectSeq(s, LAMBDA e : e.count = m)
              \o SortByCountDesc(SelectSeq(s, LAMBDA e : e.count # m))

\* The array after the find / increment-or-push part of addLikedTag
AddLikedTagMutate(doc, tag, now) ==
    LET lt == ToLowerCase(tag)
        i  == FirstIndex(doc, LAMBDA e : e.tag = lt)
    IN IF i > 0
       THEN [doc EXCEPT ![i].count = @ + 1, ![i].lastLikedAt = now]
       ELSE Append(doc, [tag |-> lt, count |-> 1, lastLikedAt |-> now])

\* mutant: the slice is computed but not assigned back
TruncateTopSliceDropped(doc) ==
    IF Len(doc) > MaxLikedTags THEN SortByCountDesc(doc) ELSE doc

\* "Keep only top 100 tags"
TruncateTop(doc) ==
    IF Len(doc) > MaxLikedTags
    THEN SubSeq(SortByCountDesc(doc), 1, MaxLikedTags)
    ELSE doc

\* what likedTags.slice(0, 100) leaves out (history only)
Evicted(doc) ==
    IF Len(doc) > MaxLikedTags
    THEN SubSeq(SortByCountDesc(doc), MaxLikedTags + 1, Len(doc))
    ELSE <<>>

\* userSchema.methods.addLikedTag: the document's likedTags after the call
AddLikedTag(doc, tag, now) == TruncateTop(AddLikedTagMutate(doc, tag, now))

\* weight of a (lower-case) tag in a profile, 0 when absent
Weight(doc, t) ==
    LET i == FirstIndex(doc, LAMBDA e : e.tag = t)
    IN IF i > 0 THEN doc[i].count ELSE 0

----------------------------------------------------------------------------
(* Serial use of the profile: one addLikedTag call at a time on the        *)
(* document, each followed by its save (specification SpecProfile).        *)

\* counts of the profiles the behaviours start from
PatCount(pat, i) ==
    CASE pat = 1 -> 1
      [] pat = 2 -> 1 + (i % 3)
      [] OTHER   -> IF i <= 30 THEN 3 ELSE IF i <= 60 THEN 2 ELSE 1

ProfileOf(n, pat) ==
    [i \in 1..n |-> [tag |-> i, count |-> PatCount(pat, i), lastLikedAt |-> 0]]

InitialProfiles ==
    {ProfileOf(n, pat) : n \in {2, MaxLikedTags - 1, MaxLikedTags}, pat \in 1..3}

\* tags handed to addLikedTag: present ones, absent ones, an upper-case spelling
CallTags == {1, 2, MaxLikedTags, MaxLikedTags + 1, MaxLikedTags + 2,
             UpperOffset + MaxLikedTags + 1}

DivIdle ==
    /\ dvAlgo = "none" /\ dvPosts = <<>> /\ dvFactor = 0
    /\ diversified = <<>> /\ remaining = <<>> /\ dvPc = "idle"
    /\ dvResult = <<>>

TglIdle ==
    /\ tpc = <<>> /\ tuser = <<>> /\ tloaded = <<>> /\ tbranch = <<>> /\ tlikes = <<>>
    /\ tcount = 0 /\ treqs = 0

PrefIdle ==
    /\ gpc = "idle" /\ glimit = 0 /\ gresult = <<>> /\ gread = <<>> /\ gcalls = 0
    /\ greturn = <<>> /\ gentry = <<>>

PageIdle ==
    /\ pgPc = "idle" /\ pgLimit = 0 /\ pgPrefs = <<>> /\ pgCursor = 0 /\ pgPages = <<>>

ScoreIdle ==
    /\ scPc = "idle" /\ scPosts = <<>> /\ scPrefs = <<>> /\ scOut = <<>>

SysIdle ==
    /\ docVersion = 0
    /\ likesCount = <<>> /\ likeRec = <<>> /\ cache = <<>> /\ cacheExpiry = <<>>
    /\ fault = "none" /\ tnow = 0 /\ clears = 0
    /\ lpc = <<>> /\ lpost = <<>> /\ ldoc = <<>> /\ lver = <<>> /\ ltags = <<>>
    /\ toggles = 0 /\ tagLikes = <<>> /\ updatesDone = 0
    /\ fpc = "idle" /\ freq = <<>> /\ fprefs = <<>> /\ fposts = <<>>
    /\ fdraws = <<>> /\ lastResponse = <<>> /\ lastMeta = <<>> /\ feedMeta = <<>>
    /\ feeds = 0

InitProfile ==
    /\ SysIdle
    /\ likedTags \in InitialProfiles
    /\ clock = 1
    /\ callHist = <<>>
    /\ lastEvicted = <<>>
    /\ DivIdle
    /\ ScoreIdle
    /\ PageIdle
    /\ PrefIdle
    /\ TglIdle

\* user.addLikedTag(tag) followed by this.save(), nothing else in flight
AddLikedTagCall(tag) ==
    /\ Len(callHist) < MaxCalls
    /\ LET mutated == AddLikedTagMutate(likedTags, tag, clock)
           after   == AddLikedTag(likedTags, tag, clock)
       IN /\ likedTags' = after
          /\ lastEvicted' = Evicted(mutated)
          /\ callHist' = Append(callHist,
                 [tag |-> ToLowerCase(tag), weightAfter |-> Weight(after, ToLowerCase(tag))])
    /\ clock' = clock + 1
    /\ UNCHANGED <<divVars, scoreVars, pageVars, prefVars, tglVars, sysVars>>

NextProfile == \E tag \in CallTags : AddLikedTagCall(tag)

SpecProfile == InitProfile /\ [][NextProfile]_vars

\* shape of the stored profile
ProfileTypeOK ==
    /\ \A i \in 1..Len(likedTags) :
          /\ likedTags[i].tag \in 1..UpperOffset
          /\ likedTags[i].count \in Nat
          /\ likedTags[i].lastLikedAt \in 0..clock

\* C4: after every addLikedTag call the profile holds at most 100 entries.
C4_Bounded == Len(likedTags) <= MaxLikedTags

\* a call on a full profile with a tag it did not hold has completed
C4_Witness ==
    /\ callHist # <<>>
    /\ lastEvicted # <<>>
    /\ Len(likedTags) = MaxLikedTags

\* C5: a call recording tag t never leaves t lighter than an earlier call
\* recording t left it, and no weight is negative.
C5_MonotonicWeight ==
    /\ \A i, j \in 1..Len(callHist) :
          (i < j /\ callHist[i].tag = callHist[j].tag)
              => callHist[j].weightAfter >= callHist[i].weightAfter
    /\ \A i \in 1..Len(likedTags) : likedTags[i].count >= 0

\* tag t was recorded, other tags were recorded on a full profile in
\* between (with an eviction), and t was recorded again
C5_Witness ==
    \E i, j, k \in 1..Len(callHist) :
        /\ i < j /\ j < k
        /\ callHist[i].tag = callHist[k].tag
        /\ callHist[j].tag # callHist[i].tag
        /\ callHist[i].weightAfter >= 1
        /\ callHist[k].weightAfter > callHist[i].weightAfter
        /\ lastEvicted # <<>>

\* C6: when a call makes the count exceed 100, the 100 heaviest entries are
\* kept, and of two entries of equal weight the more recently updated one is
\* kept in preference to the less recently updated one.
C6_EvictionRule ==
    \A e \in Range(lastEvicted) : \A k \in Range(likedTags) :
        /\ k.count >= e.count
        /\ (k.count = e.count => k.lastLikedAt >= e.lastLikedAt)

----------------------------------------------------------------------------
(* Diversity rerankers (specification SpecDiversity)                       *)

\* tags of the posts handed to the rerankers; <<>> also stands for a post
\* without a tags field (`post.tags || []`)
DivTagsOf(p) ==
    CASE p = 1 -> <<1, 2>>
      [] p = 2 -> <<2, 1>>
      [] p = 3 -> <<3>>
      [] p = 4 -> <<UpperOffset + 1, 2>>
      [] p = 5 -> <<>>
      [] p = 6 -> <<1>>
      [] OTHER -> <<1, 2, 3>>

DivPostIds == 1..6

DivTags == [p \in DivPostIds |-> DivTagsOf(p)]

\* diversityFactor values and Math.random() outcomes, in hundredths
Factors == {0, 30, 100}
RandomDraws == {0, 50, 99}

\* a ratio intersection.size / union.size, kept as numerator and denominator
Ratio(n, d) == [num |-> n, den |-> d]

\* RankingService.calculateTagOverlap (lower-cases both sides)
CalculateTagOverlap(tags1, tags2) ==
    IF Len(tags1) = 0 \/ Len(tags2) = 0 THEN Ratio(0, 1)
    ELSE LET set1 == {ToLowerCase(t) : t \in Range(tags1)}
             set2 == {ToLowerCase(t) : t \in Range(tags2)}
         IN Ratio(Cardinality(set1 \cap set2), Cardinality(set1 \cup set2))

\* PersonalizationService.calculateTagSimilarity (no case folding)
CalculateTagSimilarity(tags1, tags2) ==
    IF Len(tags1) = 0 \/ Len(tags2) = 0 THEN Ratio(0, 1)
    ELSE LET set1 == Range(tags1)
             set2 == Range(tags2)
         IN Ratio(Cardinality(set1 \cap set2), Cardinality(set1 \cup set2))

\* `tagOverlap < 0.5`
LessThanHalf(r) == 2 * r.num < r.den

\* mutant: the draw compared with <=
RandomAtMost(r, factor) == r <= factor

\* `Math.random() < diversityFactor`
RandomBelow(r, factor) == r < factor

\* mutant: the diverse post is chosen but the head of `remaining` is removed
ApplyDiversityNextShift(tagsOf, last, rem, factor, r) ==
    LET different == SelectSeq(rem, LAMBDA p :
                        LessThanHalf(CalculateTagOverlap(tagsOf[last], tagsOf[p])))
    IN IF Len(different) > 0 /\ RandomBelow(r, factor)
       THEN [post |-> different[1], rest |-> Tail(rem)]
       ELSE [post |-> Head(rem), rest |-> Tail(rem)]

\* mutant: the dissimilar candidates are never preferred
ApplyDiversityNextGreedy(tagsOf, last, rem, factor, r) ==
    [post |-> Head(rem), rest |-> Tail(rem)]

\* mutant: the lowest-ranked dissimilar post is chosen (different[different.length - 1])
ApplyDiversityNextLastDifferent(tagsOf, last, rem, factor, r) ==
    LET different == SelectSeq(rem, LAMBDA p :
                        LessThanHalf(CalculateTagOverlap(tagsOf[last], tagsOf[p])))
    IN IF Len(different) > 0 /\ RandomBelow(r, factor)
       THEN [post |-> different[Len(different)],
             rest |-> SelectSeq(rem, LAMBDA p : p # different[Len(different)])]
       ELSE [post |-> Head(rem), rest |-> Tail(rem)]

\* mutant: splice called without its count, `remaining.splice(index)`,
\* which removes the chosen post and everything after it
ApplyDiversityNextSpliceToEnd(tagsOf, last, rem, factor, r) ==
    LET different == SelectSeq(rem, LAMBDA p :
                        LessThanHalf(CalculateTagOverlap(tagsOf[last], tagsOf[p])))
    IN IF Len(different) > 0 /\ RandomBelow(r, factor)
       THEN [post |-> different[1],
             rest |-> SubSeq(rem, 1, FirstIndex(rem, LAMBDA p : p = different[1]) - 1)]
       ELSE [post |-> Head(rem), rest |-> Tail(rem)]

\* one iteration of the while loop of applyDiversity: the post placed next
\* and what is left of `remaining`
ApplyDiversityNext(tagsOf, last, rem, factor, r) ==
    LET different == SelectSeq(rem, LAMBDA p :
                        LessThanHalf(CalculateTagOverlap(tagsOf[last], tagsOf[p])))
    IN IF Len(different) > 0 /\ RandomBelow(r, factor)
       THEN [post |-> different[1],
             rest |-> RemoveAt(rem, FirstIndex(rem, LAMBDA p : p = different[1]))]
       ELSE [post |-> Head(rem), rest |-> Tail(rem)]

\* one iteration of the while loop of applyContentDiversity
ApplyContentDiversityNext(tagsOf, placed, rem, level, r) ==
    LET last == placed[Len(placed)]
        diversePosts == SelectSeq(rem, LAMBDA p :
                        LessThanHalf(CalculateTagSimilarity(tagsOf[last], tagsOf[p])))
        nextPost == IF RandomBelow(r, level) /\ Len(placed) > 0 /\ Len(diversePosts) > 0
                    THEN diversePosts[1]
                    ELSE rem[1]
    IN [post |-> nextPost,
        rest |-> RemoveAt(rem, FirstIndex(rem, LAMBDA p : p = nextPost))]

\* lists of distinct posts of length n
RECURSIVE DistinctSeqs(_, _)
DistinctSeqs(S, n) ==
    IF n = 0 THEN {<<>>}
    ELSE {Append(s, x) : s \in DistinctSeqs(S, n - 1), x \in S} \ 
         {s \in {Append(t, x) : t \in DistinctSeqs(S, n - 1), x \in S} :
             \E i, j \in 1..Len(s) : i # j /\ s[i] = s[j]}

DivInputs == UNION {DistinctSeqs(DivPostIds, n) : n \in 0..MaxPosts}

ProfIdle ==
    /\ likedTags = <<>> /\ clock = 1 /\ callHist = <<>> /\ lastEvicted = <<>>

InitDiversity == ProfIdle /\ DivIdle /\ SysIdle /\ ScoreIdle /\ PageIdle /\ PrefIdle /\ TglIdle

\* RankingService.applyDiversity(posts, diversityFactor): entry
ApplyDiversityCall(posts, factor) ==
    /\ dvPc = "idle"
    /\ dvAlgo' = "applyDiversity"
    /\ dvPosts' = posts
    /\ dvFactor' = factor
    /\ IF Len(posts) <= 1 \/ factor <= 0
       THEN /\ dvPc' = "done"
            /\ dvResult' = posts
            /\ UNCHANGED <<diversified, remaining>>
       ELSE /\ dvPc' = "loop"
            /\ diversified' = <<Head(posts)>>
            /\ remaining' = Tail(posts)
            /\ UNCHANGED dvResult
    /\ UNCHANGED <<profVars, sysVars, scoreVars, pageVars, prefVars, tglVars>>

\* applyDiversity: one pass of `while (remaining.length > 0)`
ApplyDiversityStep(r) ==
    /\ dvPc = "loop" /\ dvAlgo = "applyDiversity"
    /\ Len(remaining) > 0
    /\ LET nx == ApplyDiversityNext(DivTags, diversified[Len(diversified)],
                                    remaining, dvFactor, r)
       IN /\ diversified' = Append(diversified, nx.post)
          /\ remaining' = nx.rest
    /\ UNCHANGED <<dvAlgo, dvPosts, dvFactor, dvPc, dvResult>>
    /\ UNCHANGED <<profVars, sysVars, scoreVars, pageVars, prefVars, tglVars>>

\* applyDiversity: loop exit, `return diversified`
ApplyDiversityReturn ==
    /\ dvPc = "loop" /\ dvAlgo = "applyDiversity"
    /\ Len(remaining) = 0
    /\ dvPc' = "done"
    /\ dvResult' = diversified
    /\ UNCHANGED <<dvAlgo, dvPosts, dvFactor, diversified, remaining>>
    /\ UNCHANGED <<profVars, sysVars, scoreVars, pageVars, prefVars, tglVars>>

\* PersonalizationService.applyContentDiversity(posts, diversityLevel): entry
ApplyContentDiversityCall(posts, level) ==
    /\ dvPc = "idle"
    /\ dvAlgo' = "applyContentDiversity"
    /\ dvPosts' = posts
    /\ dvFactor' = level
    /\ IF Len(posts) <= 2
       THEN /\ dvPc' = "done"
            /\ dvResult' = posts
            /\ UNCHANGED <<diversified, remaining>>
       ELSE /\ dvPc' = "loop"
            /\ diversified' = <<posts[1]>>
            /\ remaining' = Tail(posts)
            /\ UNCHANGED dvResult
    /\ UNCHANGED <<profVars, sysVars, scoreVars, pageVars, prefVars, tglVars>>

\* applyContentDiversity: one pass of its while loop
ApplyContentDiversityStep(r) ==
    /\ dvPc = "loop" /\ dvAlgo = "applyContentDiversity"
    /\ Len(remaining) > 0 /\ Len(diversified) < Len(dvPosts)
    /\ LET nx == ApplyContentDiversityNext(DivTags, diversified, remaining, dvFactor, r)
       IN /\ diversified' = Append(diversified, nx.post)
          /\ remaining' = nx.rest
    /\ UNCHANGED <<dvAlgo, dvPosts, dvFactor, dvPc, dvResult>>
    /\ UNCHANGED <<profVars, sysVars, scoreVars, pageVars, prefVars, tglVars>>

\* applyContentDiversity: loop exit, `return diversified`
ApplyContentDiversityReturn ==
    /\ dvPc = "loop" /\ dvAlgo = "applyContentDiversity"
    /\ ~(Len(remaining) > 0 /\ Len(diversified) < Len(dvPosts))
    /\ dvPc' = "done"
    /\ dvResult' = diversified
    /\ UNCHANGED <<dvAlgo, dvPosts, dvFactor, diversified, remaining>>
    /\ UNCHANGED <<profVars, sysVars, scoreVars, pageVars, prefVars, tglVars>>

NextDiversity ==
    \/ \E posts \in DivInputs, f \in Factors : ApplyDiversityCall(posts, f)
    \/ \E r \in RandomDraws : ApplyDiversityStep(r)
    \/ ApplyDiversityReturn
    \/ \E posts \in DivInputs, f \in Factors : ApplyContentDiversityCall(posts, f)
    \/ \E r \in RandomDraws : ApplyContentDiversityStep(r)
    \/ ApplyContentDiversityReturn

SpecDiversity == InitDiversity /\ [][NextDiversity]_vars

\* the loops of the two rerankers: synchronous code that runs on once started
DiversityLoop ==
    \/ \E r \in RandomDraws : ApplyDiversityStep(r)
    \/ ApplyDiversityReturn
    \/ \E r \in RandomDraws : ApplyContentDiversityStep(r)
    \/ ApplyContentDiversityReturn

SpecDiversityLive == InitDiversity /\ [][NextDiversity]_vars /\ WF_vars(DiversityLoop)

\* number of occurrences of x in s
Occurrences(s, x) == Cardinality({i \in 1..Len(s) : s[i] = x})

IsPermutation(s, t) ==
    /\ Len(s) = Len(t)
    /\ \A x \in Range(s) \cup Range(t) : Occurrences(s, x) = Occurrences(t, x)

\* C7: both rerankers return a permutation of their input (and keep one
\* throughout the loop: placed and remaining posts together are the input).
C7_Permutation ==
    /\ dvPc = "done" => IsPermutation(dvResult, dvPosts)
    /\ dvPc = "loop" => IsPermutation(diversified \o remaining, dvPosts)

\* a reranker returned a list of three or more posts in a changed order
C7_Witness ==
    /\ dvPc = "done"
    /\ Len(dvResult) >= 3
    /\ dvResult # dvPosts

\* C8: with diversityFactor 0 the input comes back in the input order.
C8_IdentityAtZero ==
    (dvPc = "done" /\ dvFactor = 0) => dvResult = dvPosts

\* a reranker returned for factor 0 on a list that a positive factor reorders
C8_Witness ==
    /\ dvPc = "done" /\ dvFactor = 0
    /\ Len(dvResult) >= 3
    /\ \E i \in 2..Len(dvResult) :
          /\ ~ (2 * CalculateTagOverlap(DivTags[dvResult[i-1]], DivTags[dvResult[i]]).num
                  < CalculateTagOverlap(DivTags[dvResult[i-1]], DivTags[dvResult[i]]).den)
          /\ \E j \in (i+1)..Len(dvResult) :
                2 * CalculateTagOverlap(DivTags[dvResult[i-1]], DivTags[dvResult[j]]).num
                  < CalculateTagOverlap(DivTags[dvResult[i-1]], DivTags[dvResult[j]]).den

\* Jaccard similarity below 0.5, as the reranker `algo` measures it
Dissimilar(algo, p, q) ==
    LET sim == IF algo = "applyDiversity"
               THEN CalculateTagOverlap(DivTags[p], DivTags[q])
               ELSE CalculateTagSimilarity(DivTags[p], DivTags[q])
    IN 2 * sim.num < sim.den

\* C9: at diversityFactor 1, whenever a post not yet placed was dissimilar
\* to the post at position i-1, the post at position i is dissimilar to it.
C9_NoClustering ==
    (dvPc = "done" /\ dvFactor = 100) =>
        \A i \in 2..Len(dvResult) :
            (\E j \in i..Len(dvResult) : Dissimilar(dvAlgo, dvResult[i-1], dvResult[j]))
                => Dissimilar(dvAlgo, dvResult[i-1], dvResult[i])

\* at factor 1 a dissimilar post was moved ahead of a similar, higher-ranked one
C9_Witness ==
    /\ dvPc = "done" /\ dvFactor = 100 /\ dvAlgo = "applyDiversity"
    /\ \E i \in 2..Len(dvResult) :
          /\ Dissimilar(dvAlgo, dvResult[i-1], dvResult[i])
          /\ \E j \in (i+1)..Len(dvResult) :
                /\ ~Dissimilar(dvAlgo, dvResult[i-1], dvResult[j])
                /\ \E a, b \in 1..Len(dvPosts) :
                      a < b /\ dvPosts[a] = dvResult[j] /\ dvPosts[b] = dvResult[i]

----------------------------------------------------------------------------
(* The running system (specification Spec): one user, the posts of other   *)
(* users, the like path and the cache.                                     *)

FeedUser == "u1"

\* the Post collection, in insertion order; ageDays = (now - createdAt) in days
FeedPostOf(p) ==
    CASE p = 1 -> [author |-> "u2", tags |-> <<1, 2>>, ageDays |-> 0, isActive |-> TRUE,
                   commentsCount |-> 0, sharesCount |-> 0, viewsCount |-> 0]
      [] p = 2 -> [author |-> "u2", tags |-> <<1>>, ageDays |-> 4, isActive |-> TRUE,
                   commentsCount |-> 0, sharesCount |-> 0, viewsCount |-> 0]
      [] p = 3 -> [author |-> "u2", tags |-> <<3>>, ageDays |-> 2, isActive |-> TRUE,
                   commentsCount |-> 1, sharesCount |-> 0, viewsCount |-> 10]
      [] p = 4 -> [author |-> "u1", tags |-> <<2>>, ageDays |-> 0, isActive |-> TRUE,
                   commentsCount |-> 0, sharesCount |-> 0, viewsCount |-> 0]
      [] OTHER -> [author |-> "u2", tags |-> <<>>, ageDays |-> 6, isActive |-> TRUE,
                   commentsCount |-> 0, sharesCount |-> 0, viewsCount |-> 0]

FeedPostIds == 1..5

FeedPosts == [p \in FeedPostIds |-> FeedPostOf(p)]

FeedTags == UNION {Range(FeedPosts[p].tags) : p \in FeedPostIds}

Likers == 1..MaxLikers

NoEntry == <<>>

\* CACHE_KEYS.USER_LIKED_TAGS(userId)
UserLikedTagsKey(userId) == <<"tags:user", userId>>

\* CACHE_KEYS.USER_FEED(userId)
UserFeedKey(userId) == <<"feed:user", userId>>

\* req.query values the model sends.  `tags` is kept as the list of its
\* comma separated parts and NoTags is the parameter left out; lastPostId is a
\* post id and NoPost is the parameter left out; `refresh` is the raw query
\* string and NoParam is the parameter left out.
NoParam == "undefined"
NoTags == <<>>
NoPost == 0
AllTags == <<0>>        \* the literal 'all' of the cache key
FeedPages == {1}
FeedLimits == {1, 2}
FeedTagParams == {NoTags, <<3>>}
FeedCursors == {NoPost, 1}
FeedRefresh == {NoParam, "true", "false"}

\* The requests sent: the first page of two posts with and without a
\* cursor and with each spelling of `refresh`, and a one-post page filtered
\* by tag.
FeedRequests ==
    {q \in [page : FeedPages, limit : FeedLimits, tags : FeedTagParams,
            lastPostId : FeedCursors, refresh : FeedRefresh] :
        /\ q.tags = NoTags <=> q.limit = 2
        /\ q.tags # NoTags => q.lastPostId = NoPost /\ q.refresh = NoParam
        /\ q.lastPostId # NoPost => q.refresh = NoParam}

\* `refresh = false` default and the test `!refresh` on a query string
Truthy(v) == v # NoParam /\ v # ""

\* getPersonalizedFeed: const cacheKey = USER_FEED(userId) + `:${pageNum}:${limitNum}:${tags || 'all'}`
FeedCacheKey(userId, q) ==
    UserFeedKey(userId) \o <<q.page, q.limit, IF q.tags = NoTags THEN AllTags ELSE q.tags>>

FeedKeys == {FeedCacheKey(FeedUser, q) : q \in FeedRequests}

CacheKeys == {UserLikedTagsKey(FeedUser), UserFeedKey(FeedUser)} \cup FeedKeys

\* cacheService.delete(key), cache available
CacheDelete(c, key) == [c EXCEPT ![key] = NoEntry]

\* cacheService.set(key, value, ttl), cache available
CacheSet(c, key, value) == [c EXCEPT ![key] = <<value>>]

\* FEED_CACHE_TTL, and the TTL getUserPreferredTags passes, in seconds
FeedCacheTtl == 300
TagsCacheTtl == 300

\* an entry written by client.set, without setEx
NoExpiry == 0 - 1

CacheFaults == {"cacheDown", "cacheError"}
UpstreamFaults == {"posts", "likes", "users", "likeLog"}
Faults == {"none"} \cup CacheFaults \cup UpstreamFaults

\* mutant: the operations go to the client whatever its state
CacheAlwaysAvailable(f) == TRUE

\* CacheService: an operation reaches the store when isAvailable() holds
\* ("cacheDown" is the client not ready) and the client call does not
\* reject ("cacheError"); otherwise get returns null, set and delete false
CacheAvailable(f) == f \notin CacheFaults

\* CacheService.get
CacheGet(c, key, f) == IF CacheAvailable(f) THEN c[key] ELSE NoEntry

\* mutant: every entry is written by client.set, never expiring
ExpiryNever(t, ttl) == NoExpiry

\* CacheService.set: `if (ttl) setEx(key, ttl, ...) else set(key, ...)`
Expiry(t, ttl) == IF ttl # 0 THEN t + ttl ELSE NoExpiry

\* the contents and expiry times after CacheService.set / delete
CacheAfterSet(c, key, value, f) ==
    IF CacheAvailable(f) THEN CacheSet(c, key, value) ELSE c

ExpiryAfterSet(e, key, t, ttl, f) ==
    IF CacheAvailable(f) THEN [e EXCEPT ![key] = Expiry(t, ttl)] ELSE e

CacheAfterDelete(c, key, f) ==
    IF CacheAvailable(f) THEN CacheDelete(c, key) ELSE c

ExpiryAfterDelete(e, key, f) ==
    IF CacheAvailable(f) THEN [e EXCEPT ![key] = NoExpiry] ELSE e

----------------------------------------------------------------------------
(* Scoring (RankingService).  Scores are fixed-point: sub-scores in        *)
(* thousandths, the combined ranking score in ten-thousandths; irrational  *)
(* values (square roots, logarithms, exponentials) are tabulated, rounded  *)
(* down.                                                                   *)

PersonalizationWeight == 4      \* PERSONALIZATION_WEIGHT 0.4, in tenths
RecencyWeight == 3              \* RECENCY_WEIGHT 0.3
PopularityWeight == 3           \* POPULARITY_WEIGHT 0.3

\* Math.sqrt(n) in thousandths
SqrtMilli(n) ==
    CASE n = 0 -> 0
      [] n = 1 -> 1000
      [] n = 2 -> 1414
      [] n = 3 -> 1732
      [] n = 4 -> 2000
      [] OTHER -> 2236

\* Math.log(n) / Math.log(1000) in thousandths, n >= 1
LogRatioMilli(n) ==
    CASE n = 1 -> 0
      [] n = 2 -> 100
      [] n = 3 -> 159
      [] n = 4 -> 200
      [] n = 5 -> 232
      [] n = 6 -> 259
      [] n = 7 -> 281
      [] n = 8 -> 301
      [] n = 9 -> 318
      [] OTHER -> 333

\* Math.exp(-ageInHours / 24) in thousandths, for whole days
ExpDecayMilli(ageDays) ==
    CASE ageDays = 0 -> 1000
      [] ageDays = 1 -> 367
      [] ageDays = 2 -> 135
      [] OTHER -> 49

RECURSIVE SumSeq(_)
SumSeq(s) == IF s = <<>> THEN 0 ELSE Head(s) + SumSeq(Tail(s))

\* Values a well-formed post never carries, and results that are not finite
BadTag == 0                     \* a tag that is not a string (no toLowerCase)
BadDate == 0 - 1000             \* a createdAt that is not a Date (no getTime)
NotANumber == 0 - 1             \* NaN
NegInfinity == 0 - 2            \* -Infinity
NonFinite == {NotANumber, NegInfinity}

\* mutant: an empty profile scored as a neutral 0.5 instead of 0
CalculatePersonalizationScoreNeutral(postTags, userLikedTags) ==
    IF Len(postTags) = 0 \/ Len(userLikedTags) = 0 THEN 500
    ELSE LET totalTagWeight == SumSeq([i \in 1..Len(userLikedTags) |-> userLikedTags[i].count])
             has(t) == \E i \in 1..Len(userLikedTags) :
                           ToLowerCase(userLikedTags[i].tag) = ToLowerCase(t)
             pref(t) == userLikedTags[Max({i \in 1..Len(userLikedTags) :
                           ToLowerCase(userLikedTags[i].tag) = ToLowerCase(t)})].count
             matched == SelectSeq(postTags, has)
             matchWeight == SumSeq([i \in 1..Len(matched) |-> pref(matched[i])])
             n == Len(postTags)
         IN IF totalTagWeight = 0 THEN 0
            ELSE Min({1000,
                      (matchWeight * (n + Len(matched)) * 1000 * 1000)
                          \div (totalTagWeight * n * SqrtMilli(n))})

\* RankingService.calculatePersonalizationScore, in thousandths.  The Map
\* keeps the last count given for a tag; totalTagWeight adds every entry.
CalculatePersonalizationScore(postTags, userLikedTags) ==
    IF Len(postTags) = 0 \/ Len(userLikedTags) = 0 THEN 0
    ELSE LET totalTagWeight == SumSeq([i \in 1..Len(userLikedTags) |-> userLikedTags[i].count])
             has(t) == \E i \in 1..Len(userLikedTags) :
                           ToLowerCase(userLikedTags[i].tag) = ToLowerCase(t)
             pref(t) == userLikedTags[Max({i \in 1..Len(userLikedTags) :
                           ToLowerCase(userLikedTags[i].tag) = ToLowerCase(t)})].count
             matched == SelectSeq(postTags, has)
             matchWeight == SumSeq([i \in 1..Len(matched) |-> pref(matched[i])])
             n == Len(postTags)
         IN IF totalTagWeight = 0 THEN 0
            ELSE Min({1000,
                      (matchWeight * (n + Len(matched)) * 1000 * 1000)
                          \div (totalTagWeight * n * SqrtMilli(n))})

\* RankingService.calculateRecencyScore: 0.5 ^ (ageInDays / 2), in thousandths
CalculateRecencyScore(ageDays) ==
    LET whole == 1000 \div (2 ^ (ageDays \div 2))
    IN Max({0, Min({1000, IF ageDays % 2 = 0 THEN whole ELSE (whole * 707) \div 1000})})

\* mutant: the final Math.min(1, finalScore) left out
CalculatePopularityScoreUnclamped(likes, comments, shares, views, ageDays) ==
    LET engagementScore == (likes * 1) + (comments * 2) + (shares * 3)
        engagementRate  == IF views > 0 THEN (engagementScore * 1000) \div views ELSE 0
        timeAdjustment  == Max({100, ExpDecayMilli(ageDays)})
        rawScore        == LogRatioMilli(engagementScore + 1)
        adjustedScore   == (rawScore * timeAdjustment) \div 1000
    IN ((adjustedScore * 7) + (engagementRate * 3)) \div 10

\* RankingService.calculatePopularityScore, in thousandths.  Math.log of a
\* negative number is NaN and Math.log(0) is -Infinity; both pass through
\* the products, the sum and Math.min(1, .) unchanged.
CalculatePopularityScore(likes, comments, shares, views, ageDays) ==
    LET engagementScore == (likes * 1) + (comments * 2) + (shares * 3)
        engagementRate  == IF views > 0 THEN (engagementScore * 1000) \div views ELSE 0
        timeAdjustment  == Max({100, ExpDecayMilli(ageDays)})
        rawScore        == LogRatioMilli(engagementScore + 1)
        adjustedScore   == (rawScore * timeAdjustment) \div 1000
        finalScore      == ((adjustedScore * 7) + (engagementRate * 3)) \div 10
    IN IF engagementScore + 1 < 0 THEN NotANumber
       ELSE IF engagementScore + 1 = 0 THEN NegInfinity
       ELSE Min({1000, finalScore})

\* The statements of calculateRankingScore's try block that throw: tag.toLowerCase()
\* on a tag that is not a string (reached only past the early return for an
\* empty tag list or profile), and createdAt.getTime() on a value that is not a Date.
ScoringThrows(post, userLikedTags) ==
    \/ /\ Len(post.tags) > 0
       /\ Len(userLikedTags) > 0
       /\ BadTag \in Range(post.tags)
    \/ post.ageDays = BadDate

\* RankingService.calculateRankingScore, in ten-thousandths: the catch block
\* returns 0; a sub-score that is not finite makes the weighted sum not finite.
CalculateRankingScore(post, likes, userLikedTags) ==
    IF ScoringThrows(post, userLikedTags) THEN 0
    ELSE LET popularity == CalculatePopularityScore(likes, post.commentsCount,
                               post.sharesCount, post.viewsCount, post.ageDays)
         IN IF popularity \in NonFinite THEN popularity
            ELSE (CalculatePersonalizationScore(post.tags, userLikedTags) * PersonalizationWeight)
                 + (CalculateRecencyScore(post.ageDays) * RecencyWeight)
                 + (popularity * PopularityWeight)

\* RankingService.calculateBatchRankingScores on posts carrying their own
\* counters: posts.map(post => ({...post, rankingScore, _personalizedFor}))
CalculateBatchRankingScores(posts, userLikedTags) ==
    [i \in 1..Len(posts) |->
        [post |-> posts[i],
         rankingScore |-> CalculateRankingScore(posts[i], posts[i].likesCount, userLikedTags),
         personalizedFor |-> Len(userLikedTags) > 0]]

\* stable sort of records by their field `key`, greatest first
RECURSIVE SortByKeyDesc(_)
SortByKeyDesc(s) ==
    IF s = <<>> THEN <<>>
    ELSE LET m == Max({s[i].key : i \in 1..Len(s)})
         IN SelectSeq(s, LAMBDA e : e.key = m)
              \o SortByKeyDesc(SelectSeq(s, LAMBDA e : e.key # m))

\* Array.prototype.slice(0, n)
Slice(s, n) == SubSeq(s, 1, Min({n, Len(s)}))

\* mutant: tied scores ordered oldest first (a.createdAt - b.createdAt)
SortByRankingOldestFirst(scored) ==
    LET keyed == [i \in 1..Len(scored) |->
                    [key |-> (scored[i].rankingScore * 10000) + scored[i].ageDays,
                     val |-> scored[i]]]
        sorted == SortByKeyDesc(keyed)
    IN [i \in 1..Len(sorted) |-> sorted[i].val]

\* RankingService.sortByRanking(posts, 'recent') on scored posts
\* [id, rankingScore, ageDays]: score descending, ties newer first
SortByRanking(scored) ==
    LET keyed == [i \in 1..Len(scored) |->
                    [key |-> (scored[i].rankingScore * 10000) - scored[i].ageDays,
                     val |-> scored[i]]]
        sorted == SortByKeyDesc(keyed)
    IN [i \in 1..Len(sorted) |-> sorted[i].val]

\* the while loop of applyDiversity run to its end; draws[i] is the
\* Math.random() outcome of the i-th iteration
RECURSIVE ApplyDiversityLoop(_, _, _, _, _)
ApplyDiversityLoop(tagsOf, placed, rem, factor, draws) ==
    IF Len(rem) = 0 THEN placed
    ELSE LET nx == ApplyDiversityNext(tagsOf, placed[Len(placed)], rem, factor,
                                      draws[Len(placed)])
         IN ApplyDiversityLoop(tagsOf, Append(placed, nx.post), nx.rest, factor, draws)

\* RankingService.applyDiversity as a function of its input and the draws
ApplyDiversity(tagsOf, posts, factor, draws) ==
    IF Len(posts) <= 1 \/ factor <= 0 THEN posts
    ELSE ApplyDiversityLoop(tagsOf, <<Head(posts)>>, Tail(posts), factor, draws)

\* the posts the user sends toggleLike for
ToggledPosts == {1, 2, 5}

\* postController.toggleLike for FeedUser on post p (the request is handled
\* up to its response; the preference update it starts runs on its own)
ToggleLike(p) ==
    /\ toggles < MaxToggles
    /\ FeedPosts[p].isActive
    /\ FeedPosts[p].author # FeedUser
    /\ toggles' = toggles + 1
    /\ IF likeRec[p] = "active"
       THEN \* unlike: existingLike.isActive = false; post.decrementLikes()
            /\ likeRec' = [likeRec EXCEPT ![p] = "inactive"]
            /\ likesCount' = [likesCount EXCEPT ![p] = Max({0, @ - 1})]
            /\ UNCHANGED <<likeVars, tagLikes>>
       ELSE \* like: reactivate or create the Like; post.incrementLikes();
            \* start updateUserPreferencesOnLike without awaiting it
            /\ \E s \in Likers : lpc[s] = "idle"
            /\ LET s == Min({x \in Likers : lpc[x] = "idle"})
               IN /\ lpc' = [lpc EXCEPT ![s] = "findPost"]
                  /\ lpost' = [lpost EXCEPT ![s] = p]
            /\ likeRec' = [likeRec EXCEPT ![p] = "active"]
            /\ likesCount' = [likesCount EXCEPT ![p] = @ + 1]
            /\ tagLikes' = [t \in FeedTags |->
                              tagLikes[t] + IF t \in Range(FeedPosts[p].tags) THEN 1 ELSE 0]
            /\ UNCHANGED <<ldoc, lver, ltags>>
    /\ UNCHANGED <<likedTags, docVersion, cache, cacheExpiry, updatesDone>>
    /\ UNCHANGED <<clock, callHist, lastEvicted, divVars, scoreVars, pageVars, prefVars, tglVars, feedVars, envVars>>

\* updateUserPreferencesOnLike: `const post = await Post.findById(postId)`
UpdFindPost(s) ==
    /\ lpc[s] = "findPost"
    /\ IF Len(FeedPosts[lpost[s]].tags) = 0
       THEN lpc' = [lpc EXCEPT ![s] = "idle"]
       ELSE lpc' = [lpc EXCEPT ![s] = "findUser"]
    /\ UNCHANGED <<lpost, ldoc, lver, ltags>>
    /\ UNCHANGED <<likedTags, storeVars, histVars>>
    /\ UNCHANGED <<clock, callHist, lastEvicted, divVars, scoreVars, pageVars, prefVars, tglVars, feedVars, envVars>>

\* updateUserPreferencesOnLike: `const user = await User.findById(userId)`
UpdFindUser(s) ==
    /\ lpc[s] = "findUser"
    /\ ldoc' = [ldoc EXCEPT ![s] = likedTags]
    /\ lver' = [lver EXCEPT ![s] = docVersion]
    /\ ltags' = [ltags EXCEPT ![s] = FeedPosts[lpost[s]].tags]
    /\ lpc' = [lpc EXCEPT ![s] = "addTags"]
    /\ UNCHANGED lpost
    /\ UNCHANGED <<likedTags, storeVars, histVars>>
    /\ UNCHANGED <<clock, callHist, lastEvicted, divVars, scoreVars, pageVars, prefVars, tglVars, feedVars, envVars>>

\* What this.save() sends for the change addLikedTag made to a loaded
\* document (Mongoose writes the modified paths, not the document):
\*   "set"   $set likedTags.<i>.count / .lastLikedAt, guarded by __v
\*   "push"  $push likedTags, increments __v
\*   "array" $set likedTags (after sort and slice), guarded by and increments __v
SaveKind(before, tag) ==
    IF Len(AddLikedTagMutate(before, tag, 0)) > MaxLikedTags THEN "array"
    ELSE IF FirstIndex(before, LAMBDA e : e.tag = ToLowerCase(tag)) > 0 THEN "set"
    ELSE "push"

\* the stored likedTags after a save that passed its version guard
SavedProfile(stored, before, tag, now) ==
    LET kind == SaveKind(before, tag)
        i    == FirstIndex(before, LAMBDA e : e.tag = ToLowerCase(tag))
        after == AddLikedTag(before, tag, now)
    IN CASE kind = "array" -> after
         [] kind = "set"   -> [stored EXCEPT ![i].count = after[i].count,
                                             ![i].lastLikedAt = after[i].lastLikedAt]
         [] OTHER          -> Append(stored, after[Len(after)])

\* updateUserPreferencesOnLike: one `await user.addLikedTag(tag)` of the loop;
\* a save rejected by the version guard throws into the catch block
UpdAddLikedTag(s) ==
    /\ lpc[s] = "addTags"
    /\ Len(ltags[s]) > 0
    /\ LET tag  == Head(ltags[s])
           kind == SaveKind(ldoc[s], tag)
           guarded == kind \in {"set", "array"}
           bumps == kind \in {"push", "array"}
       IN IF guarded /\ lver[s] # docVersion
          THEN /\ lpc' = [lpc EXCEPT ![s] = "idle"]
               /\ UNCHANGED <<likedTags, docVersion, ldoc, lver, ltags>>
          ELSE /\ likedTags' = SavedProfile(likedTags, ldoc[s], tag, clock)
               /\ docVersion' = IF bumps THEN docVersion + 1 ELSE docVersion
               /\ ldoc' = [ldoc EXCEPT ![s] = AddLikedTag(ldoc[s], tag, clock)]
               /\ lver' = [lver EXCEPT ![s] = IF bumps THEN @ + 1 ELSE @]
               /\ ltags' = [ltags EXCEPT ![s] = Tail(@)]
               /\ lpc' = [lpc EXCEPT ![s] =
                             IF Len(ltags[s]) = 1 THEN "invalidate" ELSE "addTags"]
    /\ UNCHANGED lpost
    /\ UNCHANGED <<likesCount, likeRec, cache, cacheExpiry, histVars>>
    /\ UNCHANGED <<clock, callHist, lastEvicted, divVars, scoreVars, pageVars, prefVars, tglVars, feedVars, envVars>>

\* updateUserPreferencesOnLike: cacheService.delete(USER_LIKED_TAGS(userId))
UpdInvalidate(s) ==
    /\ lpc[s] = "invalidate"
    /\ cache' = CacheAfterDelete(cache, UserLikedTagsKey(FeedUser), fault)
    /\ cacheExpiry' = ExpiryAfterDelete(cacheExpiry, UserLikedTagsKey(FeedUser), fault)
    /\ lpc' = [lpc EXCEPT ![s] = "idle"]
    /\ updatesDone' = updatesDone + 1
    /\ UNCHANGED <<lpost, ldoc, lver, ltags>>
    /\ UNCHANGED <<likedTags, docVersion, likesCount, likeRec, toggles, tagLikes>>
    /\ UNCHANGED <<clock, callHist, lastEvicted, divVars, scoreVars, pageVars, prefVars, tglVars, feedVars, envVars>>

----------------------------------------------------------------------------
(* getUserPreferredTags and the personalized feed                          *)

NoResponse == [status |-> 0]

\* PersonalizationService.getRecencyBoost; a clock unit is a day
GetRecencyBoost(lastLikedAt, now) ==
    LET daysSinceLiked == now - lastLikedAt
    IN IF daysSinceLiked <= 7 THEN 5
       ELSE IF daysSinceLiked <= 30 THEN 2
       ELSE IF daysSinceLiked <= 90 THEN 1
       ELSE 0

\* PersonalizationService.getRecentLikedTags: active likes of the user joined
\* with their posts, grouped by tag, most frequent first, at most 50.  All
\* likes of the model fall in the 30 day window.  The store leaves the order
\* of equal counts open; the model lists them by tag.
GetRecentLikedTags(likes, now) ==
    LET liked == {p \in FeedPostIds : likes[p] = "active"}
        tags  == UNION {Range(FeedPosts[p].tags) : p \in liked}
        cnt(t) == Cardinality({p \in liked : t \in Range(FeedPosts[p].tags)})
        byTag == SelectSeq([t \in 1..Max(FeedTags) |-> t], LAMBDA t : t \in tags)
        keyed == [i \in 1..Len(byTag) |->
                    [key |-> cnt(byTag[i]),
                     val |-> [tag |-> byTag[i], count |-> cnt(byTag[i]), lastLikedAt |-> now]]]
        sorted == SortByKeyDesc(keyed)
    IN Slice([i \in 1..Len(sorted) |-> sorted[i].val], 50)

\* getUserPreferredTags: the forEach that merges recent activity
RECURSIVE MergeRecent(_, _, _)
MergeRecent(preferredTags, recentLikes, now) ==
    IF recentLikes = <<>> THEN preferredTags
    ELSE LET recentTag == Head(recentLikes)
             existingIndex == FirstIndex(preferredTags, LAMBDA pt : pt.tag = recentTag.tag)
             merged == IF existingIndex > 0
                       THEN [preferredTags EXCEPT
                                ![existingIndex].count = @ + (recentTag.count * 2),
                                ![existingIndex].lastLikedAt = now]
                       ELSE Append(preferredTags,
                                [tag |-> recentTag.tag, count |-> recentTag.count * 2,
                                 lastLikedAt |-> now])
         IN MergeRecent(merged, Tail(recentLikes), now)

\* getUserPreferredTags after the cache miss: merge, sort by count plus
\* recency boost, slice(0, limit)
PreferredTags(userLikedTags, recentLikes, limit, now) ==
    LET merged == MergeRecent(userLikedTags, recentLikes, now)
        keyed  == [i \in 1..Len(merged) |->
                     [key |-> merged[i].count + GetRecencyBoost(merged[i].lastLikedAt, now),
                      val |-> merged[i]]]
        sorted == SortByKeyDesc(keyed)
    IN Slice([i \in 1..Len(sorted) |-> sorted[i].val], limit)

\* getPersonalizedFeed: queryConditions applied to post p
MatchesQuery(p, q, userId) ==
    /\ FeedPosts[p].isActive
    /\ FeedPosts[p].author # userId
    /\ q.tags # NoTags =>
          \E t \in Range(FeedPosts[p].tags) : t \in {ToLowerCase(x) : x \in Range(q.tags)}
    /\ (q.lastPostId # NoPost /\ q.lastPostId \in FeedPostIds) =>
          FeedPosts[p].ageDays > FeedPosts[q.lastPostId].ageDays

FeedTagsOf == [p \in FeedPostIds |-> FeedPosts[p].tags]

AllPostIds == [p \in FeedPostIds |-> p]

\* FeedController.getPersonalizedPosts: aggregate, score, sort, diversify, slice
GetPersonalizedPosts(q, userId, userPreferredTags, likes, draws) ==
    LET fetchLimit == Min({q.limit * 3, 100})
        posts  == Slice(SelectSeq(AllPostIds, LAMBDA p : MatchesQuery(p, q, userId)),
                        fetchLimit)
        ranked == [i \in 1..Len(posts) |->
                     [id |-> posts[i],
                      likesCount |-> likes[posts[i]],
                      ageDays |-> FeedPosts[posts[i]].ageDays,
                      rankingScore |-> CalculateRankingScore(FeedPosts[posts[i]],
                                            likes[posts[i]], userPreferredTags)]]
        sorted == SortByRanking(ranked)
        order  == ApplyDiversity(FeedTagsOf, [i \in 1..Len(sorted) |-> sorted[i].id],
                                 30, draws)
        byId(p) == sorted[FirstIndex(sorted, LAMBDA e : e.id = p)]
    IN Slice([i \in 1..Len(order) |-> byId(order[i])], q.limit)

\* FeedController.enrichPostsWithEngagement
EnrichPostsWithEngagement(posts, likes) ==
    [i \in 1..Len(posts) |->
        [id |-> posts[i].id, likesCount |-> posts[i].likesCount,
         rankingScore |-> posts[i].rankingScore,
         isLiked |-> likes[posts[i].id] = "active"]]

\* getPersonalizedFeed: the `result` object
FeedResult(q, enrichedPosts) ==
    [posts |-> enrichedPosts,
     pagination |-> [currentPage |-> q.page,
                     limit |-> q.limit,
                     hasNextPage |-> Len(enrichedPosts) = q.limit,
                     nextLastPostId |-> IF Len(enrichedPosts) > 0
                                        THEN enrichedPosts[Len(enrichedPosts)].id
                                        ELSE NoPost,
                     totalFetched |-> Len(enrichedPosts)]]

\* Math.random() outcomes for one applyDiversity pass over the fetched posts
DrawSeqs == {[i \in 1..3 |-> 0], [i \in 1..3 |-> 50]}

\* mutant: the cache is consulted whatever `refresh` says
ReadsCacheAlways(q) == TRUE

\* getPersonalizedFeed: `if (!refresh)`
ReadsCache(q) == ~Truthy(q.refresh)

\* getUserPreferredTags past the cache miss, with its catch block: a failing
\* User.findById ends in `return []` with nothing cached; a failing
\* Like.aggregate is already turned into [] by getRecentLikedTags
LoadPreferredTags(doc, likes, t, f) ==
    IF f = "users" THEN [result |-> <<>>, caches |-> FALSE]
    ELSE LET recentLikes == IF f = "likeLog" THEN <<>> ELSE GetRecentLikedTags(likes, t)
         IN [result |-> PreferredTags(doc, recentLikes, 30, t), caches |-> TRUE]

\* mutant: a failed fetch is swallowed and gives an empty page
FetchPostsSwallow(q, userId, userPreferredTags, likes, draws, f) ==
    IF f = "posts" THEN [threw |-> FALSE, posts |-> <<>>]
    ELSE [threw |-> FALSE,
          posts |-> GetPersonalizedPosts(q, userId, userPreferredTags, likes, draws)]

\* getPersonalizedFeed lines 74-87: Post.findById of the cursor and
\* getPersonalizedPosts, whose catch block rethrows
FetchPosts(q, userId, userPreferredTags, likes, draws, f) ==
    IF f = "posts" THEN [threw |-> TRUE, posts |-> <<>>]
    ELSE [threw |-> FALSE,
          posts |-> GetPersonalizedPosts(q, userId, userPreferredTags, likes, draws)]

\* the posts as getPersonalizedPosts returned them: no isLiked field
Unenriched(posts) ==
    [i \in 1..Len(posts) |->
        [id |-> posts[i].id, likesCount |-> posts[i].likesCount,
         rankingScore |-> posts[i].rankingScore]]

\* FeedController.enrichPostsWithEngagement with its catch block: when
\* Like.checkUserLikes fails the posts are returned as they came
EnrichOrReturn(posts, likes, f) ==
    IF Len(posts) = 0 THEN posts
    ELSE IF f = "likes" THEN Unenriched(posts)
    ELSE EnrichPostsWithEngagement(posts, likes)

\* the catch block of getPersonalizedFeed: status 500, no page
ErrorResponse(q) ==
    [req |-> q, status |-> 500, cached |-> FALSE, posts |-> <<>>, pagination |-> <<>>]

\* getPersonalizedFeed up to the cache check: a hit is answered at once
FeedRequest(q) ==
    /\ fpc = "idle"
    /\ feeds < MaxFeeds
    /\ feeds' = feeds + 1
    /\ LET key == FeedCacheKey(FeedUser, q)
           cachedFeed == IF ReadsCache(q) THEN CacheGet(cache, key, fault) ELSE NoEntry
       IN IF cachedFeed # NoEntry
          THEN /\ lastResponse' = [req |-> q, status |-> 200, cached |-> TRUE,
                                   posts |-> cachedFeed[1].posts,
                                   pagination |-> cachedFeed[1].pagination]
               /\ lastMeta' = [written |-> feedMeta[key].written, served |-> updatesDone,
                               draws |-> feedMeta[key].draws,
                               overwrote |-> FALSE,
                               writtenAt |-> feedMeta[key].writtenAt, servedAt |-> tnow,
                               clearsWritten |-> feedMeta[key].clears,
                               clearsServed |-> clears]
               /\ UNCHANGED <<fpc, freq>>
          ELSE /\ fpc' = "prefsCache"
               /\ freq' = q
               /\ UNCHANGED <<lastResponse, lastMeta>>
    /\ UNCHANGED <<fprefs, fposts, fdraws, feedMeta>>
    /\ UNCHANGED <<profVars, divVars, scoreVars, pageVars, prefVars, tglVars, storeVars, likeVars, histVars, envVars>>

\* getUserPreferredTags(userId, {limit: 30, useCache: true}): the cache read
FeedPrefsCache ==
    /\ fpc = "prefsCache"
    /\ LET cached == CacheGet(cache, UserLikedTagsKey(FeedUser), fault)
       IN IF cached # NoEntry
          THEN /\ fprefs' = Slice(cached[1], 30)
               /\ fpc' = "query"
          ELSE /\ fpc' = "prefsLoad"
               /\ UNCHANGED fprefs
    /\ UNCHANGED <<freq, fposts, fdraws, lastResponse, lastMeta, feedMeta, feeds>>
    /\ UNCHANGED <<profVars, divVars, scoreVars, pageVars, prefVars, tglVars, storeVars, likeVars, histVars, envVars>>

\* mutant: the merged list written back (a user.save() after the merge)
StoredAfterReadSaved(stored, merged) == merged

\* What getUserPreferredTags leaves in the user document: it merges recent
\* activity into `[...user.likedTags]`, a copy, and never calls save().
StoredAfterRead(stored, merged) == stored

\* getUserPreferredTags after a cache miss: User.findById, getRecentLikedTags,
\* merge, sort, slice, cacheService.set(USER_LIKED_TAGS(userId), result, 300).
\* The reads and the write are taken as one step.
FeedPrefsLoad ==
    /\ fpc = "prefsLoad"
    /\ LET loaded == LoadPreferredTags(likedTags, likeRec, clock, fault)
           key == UserLikedTagsKey(FeedUser)
       IN /\ fprefs' = loaded.result
          /\ IF loaded.caches
             THEN /\ cache' = CacheAfterSet(cache, key, loaded.result, fault)
                  /\ cacheExpiry' = ExpiryAfterSet(cacheExpiry, key, tnow, TagsCacheTtl, fault)
             ELSE UNCHANGED <<cache, cacheExpiry>>
          /\ likedTags' = StoredAfterRead(likedTags, loaded.result)
    /\ fpc' = "query"
    /\ UNCHANGED <<freq, fposts, fdraws, lastResponse, lastMeta, feedMeta, feeds>>
    /\ UNCHANGED <<clock, callHist, lastEvicted, divVars, scoreVars, pageVars, prefVars, tglVars, likeVars, histVars, envVars>>
    /\ UNCHANGED <<docVersion, likesCount, likeRec>>

\* getPersonalizedFeed: cursor lookup and getPersonalizedPosts; a failure is
\* answered by the catch block
FeedQuery(draws) ==
    /\ fpc = "query"
    /\ LET fetched == FetchPosts(freq, FeedUser, fprefs, likesCount, draws, fault)
       IN IF fetched.threw
          THEN /\ lastResponse' = ErrorResponse(freq)
               /\ lastMeta' = [written |-> updatesDone, served |-> updatesDone,
                               draws |-> <<>>, overwrote |-> FALSE,
                               writtenAt |-> tnow, servedAt |-> tnow,
                               clearsWritten |-> clears, clearsServed |-> clears]
               /\ fpc' = "idle"
               /\ freq' = <<>> /\ fposts' = <<>> /\ fdraws' = <<>>
          ELSE /\ fposts' = fetched.posts
               /\ fdraws' = draws
               /\ fpc' = "respond"
               /\ UNCHANGED <<freq, lastResponse, lastMeta>>
    /\ fprefs' = <<>>
    /\ UNCHANGED <<feedMeta, feeds>>
    /\ UNCHANGED <<profVars, divVars, scoreVars, pageVars, prefVars, tglVars, storeVars, likeVars, histVars, envVars>>

\* getPersonalizedFeed: enrichPostsWithEngagement, build the result,
\* cacheService.set(cacheKey, result, FEED_CACHE_TTL), res.json
FeedRespond ==
    /\ fpc = "respond"
    /\ LET key == FeedCacheKey(FeedUser, freq)
           result == FeedResult(freq, EnrichOrReturn(fposts, likeRec, fault))
       IN /\ cache' = CacheAfterSet(cache, key, result, fault)
          /\ cacheExpiry' = ExpiryAfterSet(cacheExpiry, key, tnow, FeedCacheTtl, fault)
          /\ feedMeta' = IF CacheAvailable(fault)
                         THEN [feedMeta EXCEPT ![key] =
                                 [written |-> updatesDone, draws |-> fdraws,
                                  writtenAt |-> tnow, clears |-> clears]]
                         ELSE feedMeta
          /\ lastResponse' = [req |-> freq, status |-> 200, cached |-> FALSE,
                              posts |-> result.posts, pagination |-> result.pagination]
          /\ lastMeta' = [written |-> updatesDone, served |-> updatesDone,
                          draws |-> fdraws, overwrote |-> cache[key] # NoEntry,
                          writtenAt |-> tnow, servedAt |-> tnow,
                          clearsWritten |-> clears, clearsServed |-> clears]
    /\ fpc' = "idle"
    /\ freq' = <<>> /\ fposts' = <<>> /\ fdraws' = <<>>
    /\ UNCHANGED fprefs
    /\ UNCHANGED feeds
    /\ UNCHANGED <<profVars, divVars, scoreVars, pageVars, prefVars, tglVars, likeVars, histVars, envVars>>
    /\ UNCHANGED <<docVersion, likesCount, likeRec>>

Init ==
    /\ likedTags = <<>> /\ clock = 1 /\ callHist = <<>> /\ lastEvicted = <<>>
    /\ DivIdle
    /\ ScoreIdle
    /\ PageIdle
    /\ PrefIdle
    /\ TglIdle
    /\ docVersion = 0
    /\ likesCount = [p \in FeedPostIds |-> 0]
    /\ likeRec = [p \in FeedPostIds |-> "none"]
    /\ cache = [k \in CacheKeys |-> NoEntry]
    /\ cacheExpiry = [k \in CacheKeys |-> NoExpiry]
    /\ fault = "none" /\ tnow = 0 /\ clears = 0
    /\ lpc = [s \in Likers |-> "idle"]
    /\ lpost = [s \in Likers |-> 1]
    /\ ldoc = [s \in Likers |-> <<>>]
    /\ lver = [s \in Likers |-> 0]
    /\ ltags = [s \in Likers |-> <<>>]
    /\ toggles = 0
    /\ tagLikes = [t \in FeedTags |-> 0]
    /\ updatesDone = 0
    /\ fpc = "idle" /\ freq = <<>> /\ fprefs = <<>> /\ fposts = <<>>
    /\ fdraws = <<>>
    /\ lastResponse = NoResponse
    /\ lastMeta = <<>>
    /\ feedMeta = [k \in FeedKeys |-> <<>>]
    /\ feeds = 0

Next ==
    \/ \E p \in ToggledPosts : ToggleLike(p)
    \/ \E s \in Likers : UpdFindPost(s)
    \/ \E s \in Likers : UpdFindUser(s)
    \/ \E s \in Likers : UpdAddLikedTag(s)
    \/ \E s \in Likers : UpdInvalidate(s)
    \/ \E q \in FeedRequests : FeedRequest(q)
    \/ FeedPrefsCache
    \/ FeedPrefsLoad
    \/ \E d \in DrawSeqs : FeedQuery(d)
    \/ FeedRespond

Spec == Init /\ [][Next]_vars

\* C3: once every preference update has finished, the stored weight of each
\* tag equals the number of like events on posts carrying it; two concurrent
\* likes on posts sharing t raise t by exactly 2.
C3_NoLostUpdate ==
    (\A s \in Likers : lpc[s] = "idle")
        => \A t \in FeedTags : Weight(likedTags, t) = tagLikes[t]

----------------------------------------------------------------------------
(* Claims about the feed cache, checked under Spec                         *)

\* the page a request gets when nothing is read from the cache: preferred
\* tags from the stored profile and likes, getPersonalizedPosts, enrichment
FreshResult(q, draws) ==
    LET prefs == PreferredTags(likedTags, GetRecentLikedTags(likeRec, clock), 30, clock)
        posts == GetPersonalizedPosts(q, FeedUser, prefs, likesCount, draws)
    IN FeedResult(q, EnrichPostsWithEngagement(posts, likeRec))

ResponseBody(r) == [posts |-> r.posts, pagination |-> r.pagination]

\* C1: once a preference update started by a like has completed, a feed
\* request of the user without the refresh flag is not answered from a feed
\* cache entry written before that update: a response served from the cache
\* comes from an entry written after the last completed update.
C1_LikeInvalidatesFeed ==
    (lastResponse.status = 200 /\ lastResponse.cached)
        => lastMeta.written = lastMeta.served

\* C2: with the store never changed since the cache was empty and the
\* reranker's random outcomes held fixed, every feed response equals, apart
\* from the `cached` flag, the page the same request (page, limit, tags,
\* lastPostId) gets when computed without the cache.
C2_CacheTransparent ==
    (lastResponse.status = 200 /\ toggles = 0)
        => ResponseBody(lastResponse) = FreshResult(lastResponse.req, lastMeta.draws)

\* C10: a feed request with refresh=true is not answered from the cache and,
\* once it has succeeded, the entry under its cache key is the page it
\* computed.
C10_ForceRefresh ==
    (lastResponse.status = 200 /\ lastResponse.req.refresh = "true")
        => /\ ~lastResponse.cached
           /\ cache[FeedCacheKey(FeedUser, lastResponse.req)]
                 = <<ResponseBody(lastResponse)>>

\* a refresh=true request was answered while an entry sat under its key, and
\* the entry was replaced by the page computed for it
C10_Witness ==
    /\ lastResponse.status = 200
    /\ lastResponse.req.refresh = "true"
    /\ lastMeta.overwrote
    /\ ~lastResponse.cached
    /\ cache[FeedCacheKey(FeedUser, lastResponse.req)] = <<ResponseBody(lastResponse)>>

----------------------------------------------------------------------------
(* The feed path alone, with failing dependencies, passing time and        *)
(* clearFeedCache: specification SpecFeed                                  *)

\* the wall clock moves by half a TTL
TickStep == FeedCacheTtl \div 2

\* a dependency starts or stops failing; the change falls between two
\* requests
SetFault(f) ==
    /\ fpc = "idle"
    /\ f # fault
    /\ fault' = f
    /\ UNCHANGED <<tnow, clears>>
    /\ UNCHANGED <<profVars, divVars, scoreVars, pageVars, prefVars, tglVars, storeVars, likeVars, histVars, feedVars>>

\* time passes; Redis drops the entries whose expiry time has come
Tick ==
    /\ tnow < MaxTicks * TickStep
    /\ tnow' = tnow + TickStep
    /\ cache' = [k \in CacheKeys |->
                    IF cacheExpiry[k] # NoExpiry /\ cacheExpiry[k] <= tnow'
                    THEN NoEntry ELSE cache[k]]
    /\ cacheExpiry' = [k \in CacheKeys |->
                    IF cacheExpiry[k] # NoExpiry /\ cacheExpiry[k] <= tnow'
                    THEN NoExpiry ELSE cacheExpiry[k]]
    /\ UNCHANGED <<fault, clears>>
    /\ UNCHANGED <<docVersion, likesCount, likeRec>>
    /\ UNCHANGED <<profVars, divVars, scoreVars, pageVars, prefVars, tglVars, likeVars, histVars, feedVars>>

\* FeedController.clearFeedCache: cacheService.delete(CACHE_KEYS.USER_FEED(userId))
\* and the success response
ClearFeedCache ==
    /\ fpc = "idle"
    /\ clears < MaxClears
    /\ cache' = CacheAfterDelete(cache, UserFeedKey(FeedUser), fault)
    /\ cacheExpiry' = ExpiryAfterDelete(cacheExpiry, UserFeedKey(FeedUser), fault)
    /\ clears' = clears + 1
    /\ UNCHANGED <<fault, tnow>>
    /\ UNCHANGED <<docVersion, likesCount, likeRec>>
    /\ UNCHANGED <<profVars, divVars, scoreVars, pageVars, prefVars, tglVars, likeVars, histVars, feedVars>>

\* the store after the user liked post 2 (tag 1) and the preference update
\* of that like completed; nothing cached, no request in progress
InitFeed ==
    /\ likedTags = <<[tag |-> 1, count |-> 1, lastLikedAt |-> 1]>>
    /\ clock = 1 /\ callHist = <<>> /\ lastEvicted = <<>>
    /\ DivIdle
    /\ ScoreIdle
    /\ PageIdle
    /\ PrefIdle
    /\ TglIdle
    /\ docVersion = 1
    /\ likesCount = [p \in FeedPostIds |-> IF p = 2 THEN 1 ELSE 0]
    /\ likeRec = [p \in FeedPostIds |-> IF p = 2 THEN "active" ELSE "none"]
    /\ cache = [k \in CacheKeys |-> NoEntry]
    /\ cacheExpiry = [k \in CacheKeys |-> NoExpiry]
    /\ fault = "none" /\ tnow = 0 /\ clears = 0
    /\ lpc = [s \in Likers |-> "idle"]
    /\ lpost = [s \in Likers |-> 1]
    /\ ldoc = [s \in Likers |-> <<>>]
    /\ lver = [s \in Likers |-> 0]
    /\ ltags = [s \in Likers |-> <<>>]
    /\ toggles = 1
    /\ tagLikes = [t \in FeedTags |-> IF t = 1 THEN 1 ELSE 0]
    /\ updatesDone = 1
    /\ fpc = "idle" /\ freq = <<>> /\ fprefs = <<>> /\ fposts = <<>>
    /\ fdraws = <<>>
    /\ lastResponse = NoResponse
    /\ lastMeta = <<>>
    /\ feedMeta = [k \in FeedKeys |-> <<>>]
    /\ feeds = 0

\* the requests sent while dependencies fail: no cursor
FaultRequests == {q \in FeedRequests : q.lastPostId = NoPost /\ q.refresh # "false"}

NextFeed ==
    \/ \E q \in FaultRequests : FeedRequest(q)
    \/ FeedPrefsCache
    \/ FeedPrefsLoad
    \/ \E d \in DrawSeqs : FeedQuery(d)
    \/ FeedRespond
    \/ ClearFeedCache
    \/ \E f \in Faults : SetFault(f)
    \/ Tick

SpecFeed == InitFeed /\ [][NextFeed]_vars

----------------------------------------------------------------------------
(* SpecScoring: RankingService.calculateBatchRankingScores applied to      *)
(* arrays of well-formed and malformed posts under several profiles.       *)

\* Posts as the scorer sees them.  1, 2 and 6 are well-formed (2 has more
\* engagement than views, 6 has no tags); 3 carries a tag that is not a
\* string, 4 a createdAt that is not a Date, 5 a negative likesCount.
ScPostIds == 1..6

ScPostOf(p) ==
    CASE p = 1 -> [id |-> 1, tags |-> <<1, 2>>, ageDays |-> 0, likesCount |-> 0,
                   commentsCount |-> 0, sharesCount |-> 0, viewsCount |-> 0]
      [] p = 2 -> [id |-> 2, tags |-> <<UpperOffset + 1>>, ageDays |-> 3, likesCount |-> 3,
                   commentsCount |-> 1, sharesCount |-> 1, viewsCount |-> 1]
      [] p = 3 -> [id |-> 3, tags |-> <<BadTag>>, ageDays |-> 1, likesCount |-> 1,
                   commentsCount |-> 0, sharesCount |-> 0, viewsCount |-> 10]
      [] p = 4 -> [id |-> 4, tags |-> <<2>>, ageDays |-> BadDate, likesCount |-> 1,
                   commentsCount |-> 1, sharesCount |-> 0, viewsCount |-> 5]
      [] p = 5 -> [id |-> 5, tags |-> <<1>>, ageDays |-> 2, likesCount |-> 0 - 2,
                   commentsCount |-> 0, sharesCount |-> 0, viewsCount |-> 4]
      [] OTHER -> [id |-> 6, tags |-> <<>>, ageDays |-> 5, likesCount |-> 2,
                   commentsCount |-> 0, sharesCount |-> 0, viewsCount |-> 4]

ScBatches ==
    {[i \in 1..Len(b) |-> ScPostOf(b[i])] :
        b \in UNION {DistinctSeqs(ScPostIds, n) : n \in 0..MaxBatch}}

ScProfiles ==
    { <<>>,
      <<[tag |-> 1, count |-> 2, lastLikedAt |-> 1]>>,
      <<[tag |-> 1, count |-> 1, lastLikedAt |-> 1],
        [tag |-> 2, count |-> 3, lastLikedAt |-> 2]>>,
      <<[tag |-> 3, count |-> 1, lastLikedAt |-> 1]>> }

InitScoring ==
    /\ ProfIdle
    /\ DivIdle
    /\ SysIdle
    /\ scPc = "idle"
    /\ scPosts \in ScBatches
    /\ scPrefs \in ScProfiles
    /\ scOut = <<>>
    /\ PageIdle
    /\ PrefIdle
    /\ TglIdle

\* RankingService.calculateBatchRankingScores(posts, userLikedTags)
BatchRankingScoresCall ==
    /\ scPc = "idle"
    /\ scOut' = CalculateBatchRankingScores(scPosts, scPrefs)
    /\ scPc' = "done"
    /\ UNCHANGED <<scPosts, scPrefs>>
    /\ UNCHANGED <<profVars, divVars, sysVars, pageVars, prefVars, tglVars>>

NextScoring == BatchRankingScoresCall

SpecScoring == InitScoring /\ [][NextScoring]_vars

----------------------------------------------------------------------------
(* SpecSorting: RankingService.sortByRanking(posts, 'recent') applied to   *)
(* arrays of scored posts with tied and distinct scores and dates.         *)

\* finite ranking scores (ten-thousandths) and ages (days) of the posts sorted
SortScores == {0, 3000, 7000}
SortAges == {0, 2}

\* arrays of scored posts; the id of a post is its position in the input
SortInputs ==
    UNION {[1..n -> SortScores \X SortAges] : n \in 0..MaxSort}

ScoredPosts(f) ==
    [i \in 1..Len(f) |-> [id |-> i, rankingScore |-> f[i][1], ageDays |-> f[i][2]]]

InitSorting ==
    /\ ProfIdle
    /\ DivIdle
    /\ SysIdle
    /\ scPc = "idle"
    /\ scPosts \in {ScoredPosts(f) : f \in SortInputs}
    /\ scPrefs = <<>>
    /\ scOut = <<>>
    /\ PageIdle
    /\ PrefIdle
    /\ TglIdle

\* RankingService.sortByRanking(posts, 'recent')
SortByRankingCall ==
    /\ scPc = "idle"
    /\ scOut' = SortByRanking(scPosts)
    /\ scPc' = "sorted"
    /\ UNCHANGED <<scPosts, scPrefs>>
    /\ UNCHANGED <<profVars, divVars, sysVars, pageVars, prefVars, tglVars>>

NextSorting == SortByRankingCall

SpecSorting == InitSorting /\ [][NextSorting]_vars

----------------------------------------------------------------------------
(* SpecPaging: a client reads the personalized feed page by page, sending  *)
(* refresh=true and the nextLastPostId of each page as the next lastPostId, *)
(* over the fixed Post collection FeedPosts.                               *)

PageLimits == {1, 2, 3, 4}

PagePrefs ==
    { <<>>,
      <<[tag |-> 1, count |-> 2, lastLikedAt |-> 1]>>,
      <<[tag |-> 2, count |-> 1, lastLikedAt |-> 1]>>,
      <<[tag |-> 3, count |-> 1, lastLikedAt |-> 1]>>,
      <<[tag |-> 1, count |-> 1, lastLikedAt |-> 1],
        [tag |-> 3, count |-> 2, lastLikedAt |-> 1]>> }

\* like counts of the posts while the client pages (fixed during a walk)
PageLikes == {[p \in FeedPostIds |-> 0], [p \in FeedPostIds |-> IF p = 5 THEN 3 ELSE 0]}

InitPaging ==
    /\ ProfIdle
    /\ DivIdle
    /\ ScoreIdle
    /\ docVersion = 0
    /\ likesCount \in PageLikes
    /\ likeRec = [p \in FeedPostIds |-> "none"]
    /\ cache = [k \in CacheKeys |-> NoEntry]
    /\ cacheExpiry = [k \in CacheKeys |-> NoExpiry]
    /\ fault = "none" /\ tnow = 0 /\ clears = 0
    /\ lpc = <<>> /\ lpost = <<>> /\ ldoc = <<>> /\ lver = <<>> /\ ltags = <<>>
    /\ toggles = 0 /\ tagLikes = <<>> /\ updatesDone = 0
    /\ fpc = "idle" /\ freq = <<>> /\ fprefs = <<>> /\ fposts = <<>>
    /\ fdraws = <<>> /\ lastResponse = NoResponse /\ lastMeta = <<>> /\ feedMeta = <<>>
    /\ feeds = 0
    /\ pgPc = "walking"
    /\ pgLimit \in PageLimits
    /\ pgPrefs \in PagePrefs
    /\ pgCursor = NoPost
    /\ pgPages = <<>>
    /\ PrefIdle
    /\ TglIdle

\* getPersonalizedFeed with refresh=true (no cache read) and the cursor the
\* previous page gave: query, getPersonalizedPosts, enrich, result.  The
\* client stops at a page with hasNextPage = false.
PageRequest(draws) ==
    /\ pgPc = "walking"
    /\ Len(pgPages) < MaxWalk
    /\ LET q == [page |-> 1, limit |-> pgLimit, tags |-> NoTags,
                 lastPostId |-> pgCursor, refresh |-> "true"]
           posts == GetPersonalizedPosts(q, FeedUser, pgPrefs, likesCount, draws)
           result == FeedResult(q, EnrichPostsWithEngagement(posts, likeRec))
       IN /\ pgPages' = Append(pgPages,
                              [i \in 1..Len(result.posts) |-> result.posts[i].id])
          /\ IF result.pagination.hasNextPage
             THEN /\ pgCursor' = result.pagination.nextLastPostId
                  /\ UNCHANGED pgPc
             ELSE /\ pgPc' = "end"
                  /\ UNCHANGED pgCursor
    /\ UNCHANGED <<pgLimit, pgPrefs>>
    /\ UNCHANGED <<profVars, divVars, sysVars, scoreVars, prefVars, tglVars>>

NextPaging == \E draws \in DrawSeqs : PageRequest(draws)

SpecPaging == InitPaging /\ [][NextPaging]_vars

----------------------------------------------------------------------------
(* SpecPrefs: getUserPreferredTags called with several limits, its reads   *)
(* and its cache write as separate steps, interleaved with toggleLike and  *)
(* the preference updates it starts.                                       *)

\* options.limit: the feed asks for 30, GET /users/preferred-tags for 1..50
PrefLimits == {1, 2, 30}

NoReturn == [limit |-> 0]

StoredProfiles ==
    { <<>>,
      <<[tag |-> 1, count |-> 2, lastLikedAt |-> 1],
        [tag |-> 2, count |-> 1, lastLikedAt |-> 1],
        [tag |-> 3, count |-> 1, lastLikedAt |-> 1]>> }

InitPrefs ==
    /\ likedTags \in StoredProfiles
    /\ clock = 1 /\ callHist = <<>> /\ lastEvicted = <<>>
    /\ DivIdle
    /\ ScoreIdle
    /\ PageIdle
    /\ docVersion = Len(likedTags)
    /\ likesCount = [p \in FeedPostIds |-> 0]
    /\ likeRec = [p \in FeedPostIds |-> "none"]
    /\ cache = [k \in CacheKeys |-> NoEntry]
    /\ cacheExpiry = [k \in CacheKeys |-> NoExpiry]
    /\ fault = "none" /\ tnow = 0 /\ clears = 0
    /\ lpc = [s \in Likers |-> "idle"]
    /\ lpost = [s \in Likers |-> 1]
    /\ ldoc = [s \in Likers |-> <<>>]
    /\ lver = [s \in Likers |-> 0]
    /\ ltags = [s \in Likers |-> <<>>]
    /\ toggles = 0
    /\ tagLikes = [t \in FeedTags |-> 0]
    /\ updatesDone = 0
    /\ fpc = "idle" /\ freq = <<>> /\ fprefs = <<>> /\ fposts = <<>>
    /\ fdraws = <<>>
    /\ lastResponse = NoResponse
    /\ lastMeta = <<>>
    /\ feedMeta = [k \in FeedKeys |-> <<>>]
    /\ feeds = 0
    /\ gpc = "idle" /\ glimit = 0 /\ gresult = <<>> /\ gread = <<>> /\ gcalls = 0
    /\ greturn = NoReturn
    /\ gentry = <<>>
    /\ TglIdle

\* getUserPreferredTags: `if (cached) return cached.slice(0, limit)`; the
\* value returned, wrapped, or NoEntry when the call goes on to the stores
PrefsFromCache(cached, limit) == <<Slice(cached, limit)>>

\* getUserPreferredTags(userId, {limit}): entry and cache check
GetPrefsCall(limit) ==
    /\ gpc = "idle"
    /\ gcalls < MaxPrefCalls
    /\ gcalls' = gcalls + 1
    /\ LET cached == CacheGet(cache, UserLikedTagsKey(FeedUser), fault)
           hit == IF cached = NoEntry THEN NoEntry ELSE PrefsFromCache(cached[1], limit)
       IN IF hit # NoEntry
          THEN /\ greturn' = [limit |-> limit, value |-> hit[1], cached |-> TRUE,
                               entryCurrent |-> gentry = [profile |-> likedTags,
                                                          likes |-> likeRec],
                               fresh |-> PreferredTags(likedTags,
                                            GetRecentLikedTags(likeRec, clock), limit, clock)]
               /\ UNCHANGED <<gpc, glimit>>
          ELSE /\ gpc' = "load"
               /\ glimit' = limit
               /\ UNCHANGED greturn
    /\ UNCHANGED <<gresult, gread, gentry>>
    /\ UNCHANGED <<profVars, divVars, sysVars, scoreVars, pageVars, tglVars>>

\* getUserPreferredTags past the miss: User.findById, getRecentLikedTags,
\* merge, sort, slice(0, limit)
GetPrefsLoad ==
    /\ gpc = "load"
    /\ gresult' = PreferredTags(likedTags, GetRecentLikedTags(likeRec, clock), glimit, clock)
    /\ gread' = [profile |-> likedTags, likes |-> likeRec]
    /\ gpc' = "store"
    /\ UNCHANGED <<glimit, gcalls, greturn, gentry>>
    /\ UNCHANGED <<profVars, divVars, sysVars, scoreVars, pageVars, tglVars>>

\* getUserPreferredTags: cacheService.set(USER_LIKED_TAGS(userId), result, 300); return result
GetPrefsStore ==
    /\ gpc = "store"
    /\ cache' = CacheAfterSet(cache, UserLikedTagsKey(FeedUser), gresult, fault)
    /\ cacheExpiry' = ExpiryAfterSet(cacheExpiry, UserLikedTagsKey(FeedUser), tnow,
                                     TagsCacheTtl, fault)
    /\ gentry' = gread
    /\ greturn' = [limit |-> glimit, value |-> gresult, cached |-> FALSE,
                   entryCurrent |-> TRUE, fresh |-> gresult]
    /\ gpc' = "idle"
    /\ glimit' = 0 /\ gresult' = <<>> /\ gread' = <<>>
    /\ UNCHANGED gcalls
    /\ UNCHANGED <<docVersion, likesCount, likeRec, fault, tnow, clears>>
    /\ UNCHANGED <<profVars, divVars, likeVars, histVars, feedVars, scoreVars, pageVars, tglVars>>

NextPrefs ==
    \/ \E p \in ToggledPosts : ToggleLike(p)
    \/ \E s \in Likers : UpdFindPost(s)
    \/ \E s \in Likers : UpdFindUser(s)
    \/ \E s \in Likers : UpdAddLikedTag(s)
    \/ \E s \in Likers : UpdInvalidate(s)
    \/ \E limit \in PrefLimits : GetPrefsCall(limit)
    \/ GetPrefsLoad
    \/ GetPrefsStore

SpecPrefs == InitPrefs /\ [][NextPrefs]_vars

----------------------------------------------------------------------------
(* SpecLikes: toggleLike requests of two users on one active post of a     *)
(* third user, each request taken one await at a time.                     *)

LikeUsers == {"u1", "u3"}
TglSlots == 1..MaxInFlight

InitLikes ==
    /\ ProfIdle
    /\ DivIdle
    /\ SysIdle
    /\ ScoreIdle
    /\ PageIdle
    /\ PrefIdle
    /\ tpc = [r \in TglSlots |-> "idle"]
    /\ tuser = [r \in TglSlots |-> "u1"]
    /\ tloaded = [r \in TglSlots |-> 0]
    /\ tbranch = [r \in TglSlots |-> "none"]
    /\ tlikes = [u \in LikeUsers |-> "none"]
    /\ tcount = 0
    /\ treqs = 0

\* toggleLike: `const post = await Post.findOne({_id: id, isActive: true})`;
\* the author is neither user, so the own-post check passes
TglFindPost(r, u) ==
    /\ tpc[r] = "idle"
    /\ treqs < MaxLikeReqs
    /\ treqs' = treqs + 1
    /\ tuser' = [tuser EXCEPT ![r] = u]
    /\ tloaded' = [tloaded EXCEPT ![r] = tcount]
    /\ tbranch' = [tbranch EXCEPT ![r] = "none"]
    /\ tpc' = [tpc EXCEPT ![r] = "findActive"]
    /\ UNCHANGED <<tlikes, tcount>>
    /\ UNCHANGED <<profVars, divVars, sysVars, scoreVars, pageVars, prefVars>>

\* toggleLike: `existingLike = await Like.findOne({user, post, isActive: true})`
TglFindActive(r) ==
    /\ tpc[r] = "findActive"
    /\ IF tlikes[tuser[r]] = "active"
       THEN /\ tbranch' = [tbranch EXCEPT ![r] = "unlike"]
            /\ tpc' = [tpc EXCEPT ![r] = "saveLike"]
       ELSE /\ tpc' = [tpc EXCEPT ![r] = "findInactive"]
            /\ UNCHANGED tbranch
    /\ UNCHANGED <<tuser, tloaded, tlikes, tcount, treqs>>
    /\ UNCHANGED <<profVars, divVars, sysVars, scoreVars, pageVars, prefVars>>

\* toggleLike: `inactiveLike = await Like.findOne({user, post, isActive: false})`
TglFindInactive(r) ==
    /\ tpc[r] = "findInactive"
    /\ tbranch' = [tbranch EXCEPT ![r] =
                      IF tlikes[tuser[r]] = "inactive" THEN "reactivate" ELSE "create"]
    /\ tpc' = [tpc EXCEPT ![r] = "saveLike"]
    /\ UNCHANGED <<tuser, tloaded, tlikes, tcount, treqs>>
    /\ UNCHANGED <<profVars, divVars, sysVars, scoreVars, pageVars, prefVars>>

\* toggleLike: existingLike.save() / inactiveLike.save() / Like.create().
\* create is rejected by the unique index on (user, post) when the user
\* already has a Like for the post; the catch block answers 500.
TglSaveLike(r) ==
    /\ tpc[r] = "saveLike"
    /\ LET u == tuser[r]
       IN CASE tbranch[r] = "unlike" ->
                 /\ tlikes' = [tlikes EXCEPT ![u] = "inactive"]
                 /\ tpc' = [tpc EXCEPT ![r] = "saveCount"]
            [] tbranch[r] = "reactivate" ->
                 /\ tlikes' = [tlikes EXCEPT ![u] = "active"]
                 /\ tpc' = [tpc EXCEPT ![r] = "saveCount"]
            [] OTHER ->
                 IF tlikes[u] = "none"
                 THEN /\ tlikes' = [tlikes EXCEPT ![u] = "active"]
                      /\ tpc' = [tpc EXCEPT ![r] = "saveCount"]
                 ELSE /\ tpc' = [tpc EXCEPT ![r] = "idle"]
                      /\ UNCHANGED tlikes
    /\ UNCHANGED <<tuser, tloaded, tbranch, tcount, treqs>>
    /\ UNCHANGED <<profVars, divVars, sysVars, scoreVars, pageVars, prefVars>>

\* post.decrementLikes() / post.incrementLikes(): the loaded document's
\* likesCount is changed and save() writes that value
CountAfterSave(stored, loaded, branch) ==
    IF branch = "unlike" THEN Max({0, loaded - 1}) ELSE loaded + 1

\* toggleLike: `await post.decrementLikes()` / `await post.incrementLikes()`, res.json
TglSaveCount(r) ==
    /\ tpc[r] = "saveCount"
    /\ tcount' = CountAfterSave(tcount, tloaded[r], tbranch[r])
    /\ tpc' = [tpc EXCEPT ![r] = "idle"]
    /\ UNCHANGED <<tuser, tloaded, tbranch, tlikes, treqs>>
    /\ UNCHANGED <<profVars, divVars, sysVars, scoreVars, pageVars, prefVars>>

NextLikes ==
    \/ \E r \in TglSlots, u \in LikeUsers : TglFindPost(r, u)
    \/ \E r \in TglSlots : TglFindActive(r)
    \/ \E r \in TglSlots : TglFindInactive(r)
    \/ \E r \in TglSlots : TglSaveLike(r)
    \/ \E r \in TglSlots : TglSaveCount(r)

SpecLikes == InitLikes /\ [][NextLikes]_vars

----------------------------------------------------------------------------
(* Claims about failing dependencies, checked under SpecFeed               *)

\* a step of getPersonalizedFeed: a request accepted or moved on
FeedStep == feeds' # feeds \/ fpc' # fpc

\* what C11 asks of one step
CacheFailureStep ==
    fault \in CacheFaults =>
         /\ (FeedStep \/ clears' # clears) => cache' = cache /\ cacheExpiry' = cacheExpiry
         /\ FeedStep =>
              /\ fpc = "idle" => fpc' = "prefsCache" /\ lastResponse' = lastResponse
              /\ fpc = "prefsCache" => fpc' = "prefsLoad"
              /\ fpc = "prefsLoad" =>
                    /\ fpc' = "query"
                    /\ fprefs' = PreferredTags(likedTags,
                                     GetRecentLikedTags(likeRec, clock), 30, clock)
              /\ fpc = "query" =>
                    /\ fpc' = "respond"
                    /\ \E d \in DrawSeqs :
                          fposts' = GetPersonalizedPosts(freq, FeedUser, fprefs,
                                                         likesCount, d)
              /\ fpc = "respond" =>
                    /\ fpc' = "idle"
                    /\ lastResponse'.status = 200
                    /\ ~lastResponse'.cached
                    /\ lastResponse'.req = freq
                    /\ ResponseBody(lastResponse') =
                          FeedResult(freq, EnrichPostsWithEngagement(fposts, likeRec))

\* C11: while the cache is unavailable or its operations fail, every step of
\* a feed request goes on as on a miss (get gives null, set and delete do
\* nothing and raise nothing): the request runs through the computation
\* from the stores and is answered 200 with the computed page, not cached;
\* clearFeedCache is answered too.
C11_CacheFailureNotFatal == [][CacheFailureStep]_vars

\* a request was answered with a computed page of posts while the cache was
\* failing, and nothing was stored under its key
C11_Witness ==
    /\ fault \in CacheFaults
    /\ fpc = "idle"
    /\ lastResponse.status = 200
    /\ ~lastResponse.cached
    /\ Len(lastResponse.posts) > 0
    /\ lastMeta.servedAt = tnow
    /\ cache[FeedCacheKey(FeedUser, lastResponse.req)] = NoEntry

\* what C12 asks of one step
FetchFailureStep ==
    (fpc = "query" /\ fault = "posts" /\ fpc' # fpc) =>
         /\ fpc' = "idle"
         /\ lastResponse' = ErrorResponse(freq)
         /\ cache' = cache

\* C12: when fetching the candidate posts fails in a request that was not
\* served from the cache, the request is answered with the error response
\* (status 500, no posts) and the cache is left as it was.
C12_FetchFailureFatal == [][FetchFailureStep]_vars

\* a request ended with status 500 while the post store was failing, and no
\* entry sits under its key
C12_Witness ==
    /\ fault = "posts"
    /\ fpc = "idle"
    /\ lastResponse.status = 500
    /\ lastResponse.posts = <<>>
    /\ cache[FeedCacheKey(FeedUser, lastResponse.req)] = NoEntry

\* what C13 asks of one step
EnrichmentFailureStep ==
    (fpc = "respond" /\ fault = "likes" /\ fpc' # fpc) =>
         /\ lastResponse'.status = 200
         /\ \A i \in 1..Len(lastResponse'.posts) :
               /\ "isLiked" \in DOMAIN lastResponse'.posts[i]
               /\ lastResponse'.posts[i].isLiked = FALSE

\* C13: when the like-status lookup fails while a page is enriched, the
\* request is answered 200 and every post of the page carries isLiked = false.
C13_EnrichmentDegrades == [][EnrichmentFailureStep]_vars

\* what C14 asks of one step
UpstreamFailureStep ==
    (fpc = "prefsLoad" /\ fault \in {"users", "likeLog"} /\ fpc' # fpc) =>
         /\ fpc' = "idle"
         /\ lastResponse' = ErrorResponse(freq)

\* C14: when loading the user's tag profile or the recent-like counts fails,
\* the request ends with the error response instead of going on to rank and
\* cache a page.
C14_UpstreamFailureFatal == [][UpstreamFailureStep]_vars

----------------------------------------------------------------------------
(* Scoring claims (SpecScoring)                                            *)

MalformedCounters(post) ==
    \E c \in {post.likesCount, post.commentsCount, post.sharesCount, post.viewsCount} : c < 0

ScoringFailed(post, userLikedTags) ==
    ScoringThrows(post, userLikedTags) \/ MalformedCounters(post)

WellFormed(post) ==
    /\ BadTag \notin Range(post.tags)
    /\ post.ageDays # BadDate
    /\ ~MalformedCounters(post)

\* C15: calculateBatchRankingScores returns one entry per input post, in
\* input order; a post whose scoring fails (malformed tags, timestamp or
\* counters) gets rankingScore 0, and the other posts get the scores they
\* would get in a batch without the failing ones.
C15_BatchFailureToZero ==
    scPc = "done" =>
        /\ Len(scOut) = Len(scPosts)
        /\ \A i \in 1..Len(scPosts) : scOut[i].post = scPosts[i]
        /\ \A i \in 1..Len(scPosts) :
               ScoringFailed(scPosts[i], scPrefs) => scOut[i].rankingScore = 0
        /\ SelectSeq(scOut, LAMBDA e : ~ScoringFailed(e.post, scPrefs))
             = CalculateBatchRankingScores(
                   SelectSeq(scPosts, LAMBDA q : ~ScoringFailed(q, scPrefs)), scPrefs)

\* C16: with an empty profile the personalization sub-score of every post is
\* exactly 0 and its ranking score is RECENCY_WEIGHT * recency +
\* POPULARITY_WEIGHT * popularity; the call returns normally.
C16_EmptyProfileScore ==
    (scPc = "done" /\ scPrefs = <<>>) =>
        /\ Len(scOut) = Len(scPosts)
        /\ \A i \in 1..Len(scOut) :
              LET post == scOut[i].post
              IN /\ CalculatePersonalizationScore(post.tags, scPrefs) = 0
                 /\ (post.ageDays # BadDate /\ ~MalformedCounters(post)) =>
                        scOut[i].rankingScore =
                            (RecencyWeight * CalculateRecencyScore(post.ageDays))
                            + (PopularityWeight *
                                 CalculatePopularityScore(post.likesCount, post.commentsCount,
                                     post.sharesCount, post.viewsCount, post.ageDays))

\* an empty profile scored posts with and without tags, old and new
C16_Witness ==
    /\ scPc = "done"
    /\ scPrefs = <<>>
    /\ Len(scOut) = 2
    /\ scOut[1].post.id = 1 /\ scOut[1].rankingScore = 3000
    /\ scOut[2].post.id = 2 /\ scOut[2].rankingScore > 0

----------------------------------------------------------------------------
(* Frame of the stored profile (Spec)                                      *)

ProfileStored == <<likedTags, docVersion>>

ProfileFrameStep ==
    /\ ProfileStored' # ProfileStored =>
          \E s \in Likers :
              /\ lpc[s] = "addTags"
              /\ likeRec[lpost[s]] # "none"
              /\ ltags'[s] = Tail(ltags[s])
              /\ likedTags' = SavedProfile(likedTags, ldoc[s], Head(ltags[s]), clock)
    /\ (FeedStep \/ toggles' # toggles \/ cache' # cache) =>
          ProfileStored' = ProfileStored

\* C18: the stored profile changes only in a step of the preference update
\* that a like event started (one addLikedTag save); the steps of a feed
\* request (reading the profile and merging recent activity included), the
\* like and unlike handlers themselves and every cache write or delete
\* leave it unchanged.
C18_ProfileFrame == [][ProfileFrameStep]_vars

\* a like was recorded into the profile, the post was unliked again, and a
\* feed request that had to load and merge the profile was answered
C18_Witness ==
    /\ toggles = 2
    /\ updatesDone = 1
    /\ \E p \in ToggledPosts : likeRec[p] = "inactive"
    /\ likedTags # <<>>
    /\ \A s \in Likers : lpc[s] = "idle"
    /\ fpc = "idle"
    /\ feeds >= 1
    /\ lastResponse.status = 200
    /\ ~lastResponse.cached
    /\ cache[UserLikedTagsKey(FeedUser)] # NoEntry

----------------------------------------------------------------------------
(* Clearing and expiry of feed cache entries (SpecFeed)                    *)

\* C19: once clearFeedCache has answered, a feed request that may read the
\* cache is never answered from an entry written before that clear.
C19_ClearThenFresh ==
    (lastResponse.status = 200 /\ lastResponse.cached) =>
        lastMeta.clearsWritten = lastMeta.clearsServed

\* C20: every feed cache entry carries an expiry of FEED_CACHE_TTL seconds
\* after the time it was written, no entry is stored without expiry, and a
\* response served from the cache is served at most FEED_CACHE_TTL seconds
\* after its entry was written.
C20_FeedEntriesExpire ==
    /\ \A k \in FeedKeys :
          cache[k] # NoEntry =>
              /\ cacheExpiry[k] # NoExpiry
              /\ cacheExpiry[k] = feedMeta[k].writtenAt + FeedCacheTtl
              /\ tnow < cacheExpiry[k]
    /\ (lastResponse.status = 200 /\ lastResponse.cached) =>
          /\ lastMeta.writtenAt <= lastMeta.servedAt
          /\ lastMeta.servedAt - lastMeta.writtenAt <= FeedCacheTtl

\* a page written at time 0 was served from the cache half a TTL later, and
\* at the full TTL its entry is gone
C20_Witness ==
    /\ lastResponse.status = 200
    /\ lastResponse.cached
    /\ lastMeta.writtenAt = 0
    /\ lastMeta.servedAt = TickStep
    /\ tnow = FeedCacheTtl
    /\ cache[FeedCacheKey(FeedUser, lastResponse.req)] = NoEntry
    /\ fault = "none"

----------------------------------------------------------------------------
(* Selection rule and termination of the reranker (SpecDiversity)          *)

\* rank of a post: its position in the input list
RankOf(p) == Min({i \in 1..Len(dvPosts) : dvPosts[i] = p})

\* Jaccard similarity of the lower-cased tag sets below 0.5 (0 when both are empty)
JaccardBelowHalf(p, q) ==
    LET a == {ToLowerCase(t) : t \in Range(DivTags[p])}
        b == {ToLowerCase(t) : t \in Range(DivTags[q])}
    IN 2 * Cardinality(a \cap b) < Cardinality(a \cup b) \/ a \cup b = {}

SelectionStep ==
    /\ (dvAlgo' = "applyDiversity" /\ dvPc = "idle" /\ dvPc' = "loop") =>
          diversified' = <<dvPosts'[1]>>
    /\ (dvAlgo = "applyDiversity" /\ dvPc = "loop" /\ diversified' # diversified) =>
          LET last == diversified[Len(diversified)]
              left == Range(remaining)
              dissimilar == {p \in left : JaccardBelowHalf(last, p)}
              chosen == diversified'[Len(diversified')]
              top(S) == CHOOSE p \in S : \A q \in S : RankOf(p) <= RankOf(q)
          IN /\ diversified' = Append(diversified, chosen)
             /\ diversified'[1] = dvPosts[1]
             /\ chosen \in left
             /\ \/ chosen = top(left)
                \/ dissimilar # {} /\ chosen = top(dissimilar)
    /\ (dvAlgo' = "applyDiversity" /\ dvPc' = "done" /\ dvPosts' # <<>>) =>
          dvResult'[1] = dvPosts'[1]

\* C21: applyDiversity places the first input post at position 0, and fills
\* every later position with the highest-ranked remaining post or with the
\* highest-ranked remaining post whose Jaccard tag similarity to the post
\* placed just before is below 0.5; no other post is chosen.
C21_SelectionRule == [][SelectionStep]_vars

\* applyDiversity returned four posts having made both kinds of choice: a
\* dissimilar post moved ahead of a higher-ranked one, and a later position
\* filled in rank order although a dissimilar post was waiting
C21_Witness ==
    /\ dvPc = "done" /\ dvAlgo = "applyDiversity"
    /\ Len(dvResult) = 4
    /\ dvResult[1] = dvPosts[1]
    /\ \E i \in 2..3 : \E j \in (i+1)..4 :
          /\ JaccardBelowHalf(dvResult[i-1], dvResult[i])
          /\ RankOf(dvResult[j]) < RankOf(dvResult[i])
    /\ \E i \in 2..3 : \E j \in (i+1)..4 :
          /\ ~JaccardBelowHalf(dvResult[i-1], dvResult[i])
          /\ JaccardBelowHalf(dvResult[i-1], dvResult[j])

----------------------------------------------------------------------------
(* Ranking order (SpecSorting)                                             *)

\* C22: after sortByRanking with the 'recent' fallback the posts are the
\* input posts in non-increasing order of rankingScore, and of two posts
\* with equal rankingScore the one created later comes first.
C22_RankingOrder ==
    scPc = "sorted" =>
        /\ IsPermutation(scOut, scPosts)
        /\ \A i, j \in 1..Len(scOut) :
              i < j =>
                 /\ scOut[i].rankingScore >= scOut[j].rankingScore
                 /\ (scOut[i].rankingScore = scOut[j].rankingScore
                        => scOut[i].ageDays <= scOut[j].ageDays)

\* three posts were sorted: the input's last post had the top score and
\* came first, the other two tied and the newer one, later in the input,
\* came before the older one
C22_Witness ==
    /\ scPc = "sorted"
    /\ Len(scOut) = 3
    /\ scOut[1].id = 3 /\ scOut[2].id = 2 /\ scOut[3].id = 1
    /\ scOut[1].rankingScore > scOut[2].rankingScore
    /\ scOut[2].rankingScore = scOut[3].rankingScore
    /\ scOut[2].ageDays < scOut[3].ageDays

----------------------------------------------------------------------------
(* Cursor pagination (SpecPaging)                                          *)

\* the posts a feed request of FeedUser can return
EligiblePosts == {p \in FeedPostIds : FeedPosts[p].isActive /\ FeedPosts[p].author # FeedUser}

\* the places (page, position) at which post p was returned
PlacesOf(p) ==
    {<<i, j>> \in (1..Len(pgPages)) \X (1..Max(PageLimits)) :
        j <= Len(pgPages[i]) /\ pgPages[i][j] = p}

\* C23: when the client has followed nextLastPostId to the last page, with
\* the cache bypassed and the posts unchanged, every eligible post was
\* returned on exactly one page.
C23_CursorPartition ==
    pgPc = "end" => \A p \in EligiblePosts : Cardinality(PlacesOf(p)) = 1

----------------------------------------------------------------------------
(* Cache key and cursor (Spec)                                             *)

\* C24: a feed request carrying the cursor lastPostId = X is never answered
\* with a cached page computed for another cursor or for none: every post
\* of the page it receives is older than post X, as the query for cursor X
\* demands.
C24_KeyCoversCursor ==
    (lastResponse.status = 200 /\ lastResponse.cached
        /\ lastResponse.req.lastPostId # NoPost) =>
        \A i \in 1..Len(lastResponse.posts) :
            FeedPosts[lastResponse.posts[i].id].ageDays
                > FeedPosts[lastResponse.req.lastPostId].ageDays

----------------------------------------------------------------------------
(* The preferred-tags cache (SpecPrefs)                                    *)

PrefsQuiet == gpc = "idle" /\ \A s \in Likers : lpc[s] = "idle"

\* C25: once a getUserPreferredTags call and the preference updates of the
\* likes interleaved with it have all completed, the cached preferred-tags
\* entry is absent or was computed from the profile as those updates left it.
C25_NoStaleEntryAfterRace ==
    (PrefsQuiet /\ gcalls >= 1 /\ updatesDone >= 1) =>
        \/ cache[UserLikedTagsKey(FeedUser)] = NoEntry
        \/ gentry.profile = likedTags

\* C26: a call with limit L answered from the cache, the stores being as
\* they were when the entry was computed, returns what an uncached
\* computation with limit L returns, so min(L, number of available tags)
\* entries, whatever limit the call that wrote the entry had.
C26_LimitIndependentOfCache ==
    (greturn # NoReturn /\ greturn.cached /\ greturn.entryCurrent) =>
        greturn.value = greturn.fresh

----------------------------------------------------------------------------
(* Like counter (SpecLikes)                                                *)

ActiveLikes == Cardinality({u \in LikeUsers : tlikes[u] = "active"})

\* C27: whenever no toggleLike request is in flight, the post's likesCount
\* equals the number of active Like records for the post, and likesCount is
\* never negative.
C27_LikeCounterConsistent ==
    /\ tcount >= 0
    /\ (\A r \in TglSlots : tpc[r] = "idle") => tcount = ActiveLikes

----------------------------------------------------------------------------
(* Tag uniqueness (Spec)                                                   *)

\* C28: each lower-case tag appears at most once in the stored profile,
\* after any sequence of preference updates, concurrent ones included.
C28_TagsUnique ==
    \A i, j \in 1..Len(likedTags) :
        ToLowerCase(likedTags[i].tag) = ToLowerCase(likedTags[j].tag) => i = j

----------------------------------------------------------------------------
(* Recording on a full profile (SpecProfile)                               *)

\* C29: immediately after a call recording tag t has completed, t is in
\* the profile with weight >= 1, whatever the size of the profile before.
C29_EngagementRecorded ==
    callHist # <<>> =>
        /\ callHist[Len(callHist)].weightAfter >= 1
        /\ \E i \in 1..Len(likedTags) : likedTags[i].tag = callHist[Len(callHist)].tag

----------------------------------------------------------------------------
(* Termination of the rerankers (SpecDiversityLive)                        *)

PlacementStep ==
    (dvPc = "loop" /\ <<diversified, remaining>>' # <<diversified, remaining>>) =>
        /\ Len(remaining') = Len(remaining) - 1
        /\ Len(diversified') = Len(diversified) + 1

\* C30: each pass of the placement loop of either reranker removes exactly
\* one post from `remaining` and places one, and a loop once entered ends
\* with every input post placed, whatever the list, the factor and the
\* random draws.
C30_RerankerTerminates ==
    /\ [][PlacementStep]_vars
    /\ (dvPc = "loop") ~> (dvPc = "done" /\ Len(dvResult) = Len(dvPosts))

\* a loop over the longest input ran to its end with draws that moved posts
C30_Witness ==
    /\ dvPc = "done"
    /\ Len(dvPosts) = MaxPosts
    /\ Len(dvResult) = MaxPosts
    /\ dvFactor > 0
    /\ dvResult # dvPosts

============================================================================
